---- MODULE Spec2Model ----
(***************************************************************************)
(* A model of glxGraphicsWindow (panda/src/glxdisplay/glxGraphicsWindow.cxx):*)
(* the window lifecycle, the window-manager negotiation done by            *)
(* set_properties_now / set_wm_properties, the event drain of              *)
(* process_events with its key-repeat look-ahead, and begin_frame.         *)
(*                                                                         *)
(* A WindowProperties object is a sparse record: an attribute is specified *)
(* exactly when its name is in the record's DOMAIN.                        *)
(***************************************************************************)
EXTENDS Integers, Sequences, FiniteSets, TLC

VARIABLES
  xwindow,              \* _xwindow: 0 is (Window)NULL, 1 the id of the window made last
  gsg,                  \* _gsg: 0 is NULL, 1 is a reference to the state guardian
  ic,                   \* _ic: TRUE when an input context exists
  awaiting_configure,   \* _awaiting_configure
  properties,           \* _properties, the live property model
  pointer,              \* _input_devices[0]'s pointer: [in_window, x, y]
  mice,                 \* the raw mice: _mouse_device_info and _input_devices[1..]
  got_keyrelease_event, \* process_events' local of the same name
  keyrelease_event,     \* process_events' local of the same name
  wpc,                  \* the window thread: "idle", or "drain" inside process_events' loop
  dpc,                  \* the draw thread: "idle", or the function whose tests it has
                        \* passed and whose locked block it is about to enter
  queue,                \* the connection's queued events for the window made last
  pending,              \* geometry requests the server / window manager has not answered
  current,              \* the process-wide current <<drawable, context>> of GLX
  op,                   \* the operation the last step belongs to
  ret,                  \* what that operation returned ("none" while it has not)
  calls,                \* the display-connection and GSG calls the last step issued
  unlocked,             \* those of them made without holding glxGraphicsPipe::_x_mutex
  out,                  \* what the last step emitted to the input device
  delta,                \* what the last step was called with: set_properties_now's
                        \* properties, move_pointer's [device, x, y]
  ev,                   \* the event the last step of the drain loop took
  staged,               \* the release that step found staged (NoEvent when none)
  wm,                   \* set_wm_properties' locals at the end of its last run
  close_request_event   \* get_close_request_event(): "" when the engine set none

vars == << xwindow, gsg, ic, awaiting_configure, properties, pointer, mice,
           got_keyrelease_event, keyrelease_event, wpc, dpc, queue, pending,
           current, op, ret, calls, unlocked, out, delta, ev, staged, wm,
           close_request_event >>

-----------------------------------------------------------------------------
(* Bounds of the model. *)

MaxQueue == 2       \* events queued for the window at a time
MaxPending == 2     \* geometry requests in flight at a time
MaxTime == 2        \* the largest event timestamp
MaxKeys == 1        \* key and pointer events queued at a time, in SpecKeys
MaxRead == 4        \* bytes the raw devices deliver between two polls
MaxCoord == 2       \* the largest raw pointer coordinate
RecordSize == 2     \* sizeof(struct input_event), scaled: {type, code} and value
MaxSlots == 2       \* raw device records the window collects over its opens

-----------------------------------------------------------------------------
(* WindowProperties, as the code uses it. *)

NoProperties == << >>

has(p, f) == f \in DOMAIN p

\* get_fullscreen(), get_undecorated(), get_fixed_size(), ...: an unspecified
\* flag reads as false.
get_flag(p, f) == IF f \in DOMAIN p THEN p[f] ELSE FALSE

set_property(p, f, v) == [g \in DOMAIN p \cup {f} |-> IF g = f THEN v ELSE p[g]]

clear_property(p, f) == [g \in DOMAIN p \ {f} |-> p[g]]

is_any_specified(p) == DOMAIN p # {}

\* p.add_properties(other): what other specifies replaces what p has.
add_properties(p, other) ==
  [g \in DOMAIN p \cup DOMAIN other |-> IF g \in DOMAIN other THEN other[g] ELSE p[g]]

\* glx_pipe->get_display_width(), get_display_height()
DisplaySize == << 3, 3 >>

\* the size open_window gives a window that asks for none
DefaultSize == << 100, 100 >>

-----------------------------------------------------------------------------
(* set_wm_properties. *)

SetAction(state, action) == << state, action >>

FullscreenHintsStateOnly(p) ==
  IF get_flag(p, "fullscreen")
  THEN [type  |-> << >>,
        state |-> << "_NET_WM_STATE_FULLSCREEN" >>,
        set   |-> << SetAction("_NET_WM_STATE_FULLSCREEN", "_NET_WM_STATE_ADD") >>]
  ELSE [type  |-> << >>,
        state |-> << >>,
        set   |-> << SetAction("_NET_WM_STATE_FULLSCREEN", "_NET_WM_STATE_REMOVE") >>]

\* The fullscreen branch: what it appends to type_data, state_data, set_data.
FullscreenHints(p) ==
  IF get_flag(p, "fullscreen")
  THEN [type  |-> << "_NET_WM_WINDOW_TYPE_FULLSCREEN" >>,
        state |-> << "_NET_WM_STATE_FULLSCREEN" >>,
        set   |-> << SetAction("_NET_WM_STATE_FULLSCREEN", "_NET_WM_STATE_ADD") >>]
  ELSE [type  |-> << >>,
        state |-> << >>,
        set   |-> << SetAction("_NET_WM_STATE_FULLSCREEN", "_NET_WM_STATE_REMOVE") >>]

\* The undecorated branch: the class hint, and the splash type.
UndecoratedHints(p) ==
  IF get_flag(p, "undecorated")
  THEN [res_class |-> "Undecorated",
        type |-> IF ~get_flag(p, "fullscreen")
                 THEN << "_NET_WM_WINDOW_TYPE_SPLASH" >> ELSE << >>]
  ELSE [res_class |-> "", type |-> << >>]

ZOrderHintsAdditive(p) ==
  IF ~has(p, "z_order") THEN [state |-> << >>, set |-> << >>]
  ELSE [state |-> IF p.z_order = "Z_normal" THEN << >> ELSE << "_NET_WM_STATE_ABOVE" >>,
        set   |-> << SetAction("_NET_WM_STATE_ABOVE", "_NET_WM_STATE_REMOVE"),
                     SetAction("_NET_WM_STATE_BELOW", "_NET_WM_STATE_REMOVE") >>
                  \o (IF p.z_order = "Z_top"
                      THEN << SetAction("_NET_WM_STATE_ABOVE", "_NET_WM_STATE_ADD") >>
                      ELSE IF p.z_order = "Z_bottom"
                           THEN << SetAction("_NET_WM_STATE_BELOW", "_NET_WM_STATE_ADD") >>
                           ELSE << >>)]

\* The z-order switch.
ZOrderHints(p) ==
  IF ~has(p, "z_order") THEN [state |-> << >>, set |-> << >>]
  ELSE CASE p.z_order = "Z_bottom" ->
              [state |-> << "_NET_WM_STATE_BELOW" >>,
               set   |-> << SetAction("_NET_WM_STATE_BELOW", "_NET_WM_STATE_ADD"),
                            SetAction("_NET_WM_STATE_ABOVE", "_NET_WM_STATE_REMOVE") >>]
         [] p.z_order = "Z_normal" ->
              [state |-> << >>,
               set   |-> << SetAction("_NET_WM_STATE_BELOW", "_NET_WM_STATE_REMOVE"),
                            SetAction("_NET_WM_STATE_ABOVE", "_NET_WM_STATE_REMOVE") >>]
         [] p.z_order = "Z_top" ->
              [state |-> << "_NET_WM_STATE_ABOVE" >>,
               set   |-> << SetAction("_NET_WM_STATE_BELOW", "_NET_WM_STATE_REMOVE"),
                            SetAction("_NET_WM_STATE_ABOVE", "_NET_WM_STATE_ADD") >>]

\* The size hints: a sparse record of the XSizeHints members that are set.
SizeHints(p) ==
  LET pos == IF has(p, "origin") THEN [x |-> p.origin[1], y |-> p.origin[2]]
             ELSE << >>
      siz == IF has(p, "size") THEN [width |-> p.size[1], height |-> p.size[2]]
             ELSE << >>
      fix == IF has(p, "size") /\ has(p, "fixed_size")
             THEN [min_width |-> p.size[1], min_height |-> p.size[2],
                   max_width |-> p.size[1], max_height |-> p.size[2]]
             ELSE << >>
  IN add_properties(add_properties(pos, siz), fix)

\* One client message to the root window per entry of set_data.
RECURSIVE SendSetData(_)
SendSetData(set_data) ==
  IF set_data = << >> THEN << >>
  ELSE << [fn |-> "XSendEvent", to |-> "root",
           action |-> Head(set_data)[2], state |-> Head(set_data)[1]] >>
       \o SendSetData(Tail(set_data))

\* set_wm_properties(properties, already_mapped): its locals when it returns,
\* and the calls it made on the display connection, in order.
set_wm_properties(p, already_mapped) ==
  LET fs == FullscreenHints(p)
      un == UndecoratedHints(p)
      zo == ZOrderHints(p)
      type_data  == fs.type \o un.type
      state_data == fs.state \o zo.state
      set_data   == fs.set \o zo.set
      size_hints == SizeHints(p)
      initial    == IF has(p, "minimized") /\ p.minimized
                    THEN "IconicState" ELSE "NormalState"
      name       == IF has(p, "title") THEN << p.title >> ELSE << >>
  IN [locals |-> [properties |-> p, already_mapped |-> already_mapped,
                  type_data |-> type_data, state_data |-> state_data,
                  set_data |-> set_data],
      calls  |-> << [fn |-> "XChangeProperty", property |-> "_NET_WM_WINDOW_TYPE",
                     data |-> type_data],
                    [fn |-> "XChangeProperty", property |-> "_NET_WM_STATE",
                     data |-> state_data] >>
                 \o (IF already_mapped THEN SendSetData(set_data) ELSE << >>)
                 \o << [fn |-> "XSetWMProperties", name |-> name,
                        size_hints |-> size_hints, initial_state |-> initial,
                        res_class |-> un.res_class],
                       [fn |-> "XSetWMProtocols",
                        protocols |-> << "WM_DELETE_WINDOW" >>] >>]

\* set_wm_properties did not run.
NoWm == [properties |-> NoProperties, already_mapped |-> FALSE,
         type_data |-> << >>, state_data |-> << >>, set_data |-> << >>]

-----------------------------------------------------------------------------
(* The window's state as one record, so that the handlers compose the way   *)
(* the code's calls do.  calls, out and wm start empty: they log one step.  *)

Cur ==
  [xwindow |-> xwindow, gsg |-> gsg, ic |-> ic,
   awaiting_configure |-> awaiting_configure, properties |-> properties,
   pointer |-> pointer,
   mice |-> [mice EXCEPT !.polled = [d \in DOMAIN @ |-> << >>]],
   queue |-> queue, pending |-> pending,
   current |-> current,
   wm |-> NoWm, calls |-> << >>, out |-> << >>, lock |-> 0, unlocked |-> << >>,
   dpc |-> dpc]

\* The state as a thread finds it once it holds the connection's lock.
Held == [Cur EXCEPT !.lock = 1]

Install(s) ==
  /\ xwindow' = s.xwindow
  /\ gsg' = s.gsg
  /\ ic' = s.ic
  /\ awaiting_configure' = s.awaiting_configure
  /\ properties' = s.properties
  /\ pointer' = s.pointer
  /\ mice' = s.mice
  /\ queue' = s.queue
  /\ pending' = s.pending
  /\ current' = s.current
  /\ wm' = s.wm
  /\ calls' = s.calls
  /\ unlocked' = s.unlocked
  /\ out' = s.out
  /\ dpc' = s.dpc

\* ReMutexHolder holder(glxGraphicsPipe::_x_mutex), and its destructor: the
\* lock is re-entrant, s.lock counts how often the running thread holds it.
ReMutexHolder(s) == [s EXCEPT !.lock = @ + 1]

unlock(s) == [s EXCEPT !.lock = @ - 1]

\* The calls that go to the display connection.
DisplayCalls ==
  { "XChangeProperty", "XConfigureWindow", "XCreateWindow", "XDefineCursor",
    "XDestroyIC", "XDestroyWindow", "XFlush", "XMapWindow", "XSendEvent",
    "XSetInputFocus", "XSetWMProperties", "XSetWMProtocols", "XWarpPointer",
    "XReconfigureWMWindow", "glXMakeCurrent", "glXSwapBuffers" }

IsDisplayCall(c) == c.fn \in DisplayCalls

Calls(s, cs) ==
  [s EXCEPT !.calls = @ \o cs,
            !.unlocked = IF s.lock = 0 THEN @ \o SelectSeq(cs, IsDisplayCall) ELSE @]

Call(s, c) == Calls(s, << c >>)

Emit(s, o) == [s EXCEPT !.out = Append(@, o)]

\* GraphicsWindowInputDevice::set_pointer_in_window, set_pointer_out_of_window
set_pointer_in_window(s, x, y) ==
  [s EXCEPT !.pointer = [in_window |-> TRUE, x |-> x, y |-> y]]

set_pointer_out_of_window(s) ==
  [s EXCEPT !.pointer = [@ EXCEPT !.in_window = FALSE]]

-----------------------------------------------------------------------------
(* The raw mice.  mice.info is _mouse_device_info, mice.devices[i] the      *)
(* pointer of _input_devices[i] for i >= 1, and mice.polled[d] the          *)
(* accumulator of device d as the last poll found it after its reads.       *)
(* mice.moved is the device whose mouse is in use: the others lie still and *)
(* deliver nothing.                                                         *)

NoMice == [info |-> << >>, devices |-> << >>, polled |-> << >>, moved |-> 0]

\* The device nodes /dev/input/event* that are mice.
MouseNodes == { "event0", "event1" }

\* The bytes a device delivers.
Bytes == { 0, 1, 2 }

\* _input_devices.size()
input_devices_size(s) == 1 + Len(s.mice.devices)

\* open_raw_mice: each of the found device nodes that reports relative or
\* absolute motion is opened and gets the next slot of _input_devices.
RECURSIVE open_raw_mice(_, _)
open_raw_mice(s, found) ==
  IF found = 0 THEN s
  ELSE LET t == open_raw_mice(s, found - 1)
           inf == [fd |-> 3 + Len(t.mice.info), node |-> found,
                   input_device_index |-> input_devices_size(t),
                   io_buffer |-> << >>]
       IN [t EXCEPT !.mice.info = Append(@, inf),
                    !.mice.devices = Append(@, [in_window |-> FALSE, x |-> 0, y |-> 0]),
                    !.mice.polled = Append(@, << >>)]

\* Codes of linux/input.h.
REL_X == 0
REL_Y == 1
ABS_X == 0
ABS_Y == 1
BTN_MOUSE == 272

\* The input_event a record's bytes hold.
input_event(record) ==
  LET b == record[1]
      tc == CASE b = 0 -> << "EV_REL", REL_X >>
              [] b = 1 -> << "EV_ABS", ABS_Y >>
              [] b = 2 -> << "EV_KEY", BTN_MOUSE + 1 >>
              [] b = 3 -> << "EV_KEY", BTN_MOUSE + 8 >>
              [] b = 4 -> << "EV_SYN", 0 >>
              [] b = 5 -> << "EV_REL", REL_Y >>
              [] b = 6 -> << "EV_ABS", ABS_X >>
              [] OTHER -> << "EV_MSC", 0 >>
  IN [type |-> tc[1], code |-> tc[2], value |-> record[2]]

\* events[i] of the accumulator.
EventAt(buffer, i) ==
  input_event(SubSeq(buffer, (i - 1) * RecordSize + 1, i * RecordSize))

\* The same pass taking the code BTN_MOUSE + 8 for a mouse button too.
parse_event_wide(st, slot, e) ==
  CASE e.type = "EV_REL" ->
         [st EXCEPT !.x = IF e.code = REL_X THEN @ + e.value ELSE @,
                    !.y = IF e.code = REL_Y THEN @ + e.value ELSE @]
    [] e.type = "EV_ABS" ->
         [st EXCEPT !.x = IF e.code = ABS_X THEN e.value ELSE @,
                    !.y = IF e.code = ABS_Y THEN e.value ELSE @]
    [] e.type = "EV_KEY" /\ e.code >= BTN_MOUSE /\ e.code <= BTN_MOUSE + 8 ->
         [st EXCEPT !.s = Emit([@ EXCEPT !.mice.devices[slot] =
                                           [in_window |-> TRUE, x |-> st.x, y |-> st.y]],
                               [kind |-> IF e.value # 0 THEN "button_down" ELSE "button_up",
                                button |-> e.code - BTN_MOUSE, device |-> slot,
                                x |-> st.x, y |-> st.y])]
    [] OTHER -> st

\* One pass of the for loop over the events: st is [s, x, y].
parse_event(st, slot, e) ==
  CASE e.type = "EV_REL" ->
         [st EXCEPT !.x = IF e.code = REL_X THEN @ + e.value ELSE @,
                    !.y = IF e.code = REL_Y THEN @ + e.value ELSE @]
    [] e.type = "EV_ABS" ->
         [st EXCEPT !.x = IF e.code = ABS_X THEN e.value ELSE @,
                    !.y = IF e.code = ABS_Y THEN e.value ELSE @]
    [] e.type = "EV_KEY" /\ e.code >= BTN_MOUSE /\ e.code < BTN_MOUSE + 8 ->
         [st EXCEPT !.s = Emit([@ EXCEPT !.mice.devices[slot] =
                                           [in_window |-> TRUE, x |-> st.x, y |-> st.y]],
                               [kind |-> IF e.value # 0 THEN "button_down" ELSE "button_up",
                                button |-> e.code - BTN_MOUSE, device |-> slot,
                                x |-> st.x, y |-> st.y])]
    [] OTHER -> st

RECURSIVE parse_events(_, _, _, _, _)
parse_events(st, slot, buffer, i, nevents) ==
  IF i > nevents THEN st
  ELSE parse_events(parse_event(st, slot, EventAt(buffer, i)), slot, buffer,
                    i + 1, nevents)

\* string::erase(0, n), and a variant that drops a trailing partial record too.
erase_all(buffer, n) == << >>

erase(buffer, n) == SubSeq(buffer, n + 1, Len(buffer))

\* The same body keeping the descriptor after a hard error.
poll_device_retrying(s, d, arrived, hard) ==
  LET inf == s.mice.info[d]
      s1 == IF inf.fd < 0 THEN s
            ELSE Calls([s EXCEPT !.mice.info[d].io_buffer = @ \o arrived],
                       << [fn |-> "read", fd |-> inf.fd] >>
                         \o (IF hard THEN << [fn |-> "close", fd |-> inf.fd] >>
                             ELSE << >>))
      buffer == s1.mice.info[d].io_buffer
      s2 == [s1 EXCEPT !.mice.polled[d] = buffer]
      nevents == Len(buffer) \div RecordSize
      slot == inf.input_device_index
      st == parse_events([s |-> s2, x |-> s2.mice.devices[slot].x,
                          y |-> s2.mice.devices[slot].y], slot, buffer, 1, nevents)
  IN IF nevents = 0 THEN s2
     ELSE [st.s EXCEPT !.mice.info[d].io_buffer = erase(buffer, nevents * RecordSize),
                       !.mice.devices[slot] =
                         [in_window |-> TRUE, x |-> st.x, y |-> st.y]]

\* The body of poll_raw_mice's loop for device d: the reads give the bytes
\* arrived and end with would-block, or with a hard error when hard.
poll_device(s, d, arrived, hard) ==
  LET inf == s.mice.info[d]
      s1 == IF inf.fd < 0 THEN s
            ELSE Calls([s EXCEPT !.mice.info[d].io_buffer = @ \o arrived,
                                 !.mice.info[d].fd = IF hard THEN -1 ELSE @],
                       << [fn |-> "read", fd |-> inf.fd] >>
                         \o (IF hard THEN << [fn |-> "close", fd |-> inf.fd] >>
                             ELSE << >>))
      buffer == s1.mice.info[d].io_buffer
      s2 == [s1 EXCEPT !.mice.polled[d] = buffer]
      nevents == Len(buffer) \div RecordSize
      slot == inf.input_device_index
      st == parse_events([s |-> s2, x |-> s2.mice.devices[slot].x,
                          y |-> s2.mice.devices[slot].y], slot, buffer, 1, nevents)
  IN IF nevents = 0 THEN s2
     ELSE [st.s EXCEPT !.mice.info[d].io_buffer = erase(buffer, nevents * RecordSize),
                       !.mice.devices[slot] =
                         [in_window |-> TRUE, x |-> st.x, y |-> st.y]]

\* poll_raw_mice: the loop over _mouse_device_info, from device d on.
RECURSIVE poll_raw_mice(_, _, _)
poll_raw_mice(s, reads, d) ==
  IF d > Len(s.mice.info) THEN s
  ELSE poll_raw_mice(poll_device(s, d, reads[d].arrived, reads[d].hard), reads, d + 1)

\* GraphicsWindow::system_changed_properties: the live model takes the
\* properties the system reports, and the engine is told.
system_changed_properties(s, p) ==
  Call([s EXCEPT !.properties = add_properties(@, p)],
       [fn |-> "system_changed_properties", changed |-> p])

-----------------------------------------------------------------------------
(* The server and the window manager. *)

Sizes == { << 1, 1 >>, << 1, 2 >>, << 2, 1 >> }

IsConfigure(e) == e.type = "ConfigureNotify"

\* A geometry request that sets _awaiting_configure makes every older request
\* and every ConfigureNotify already generated one that does not answer it.
RECURSIVE Outdate(_)
Outdate(q) ==
  IF q = << >> THEN << >>
  ELSE << IF "ack" \in DOMAIN Head(q) THEN [Head(q) EXCEPT !.ack = FALSE]
          ELSE Head(q) >> \o Outdate(Tail(q))

\* XReconfigureWMWindow / XConfigureWindow: the request goes to the server.
SendGeometry(s, fn, changes, flagged) ==
  LET t == IF flagged
           THEN [s EXCEPT !.queue = Outdate(@), !.pending = Outdate(@)]
           ELSE s
  IN Call([t EXCEPT !.pending = Append(@, [ack |-> flagged])],
          [fn |-> fn, window |-> s.xwindow, changes |-> changes])

\* A predicate that accepts the events of every window.
check_event_any(s, e) == TRUE

\* check_event: the events XCheckIfEvent may hand to this window.
check_event(s, e) == e.window = s.xwindow

RECURSIVE FirstMatch(_, _, _)
FirstMatch(s, q, i) ==
  IF i > Len(q) THEN 0
  ELSE IF check_event(s, q[i]) THEN i ELSE FirstMatch(s, q, i + 1)

Without(q, i) == SubSeq(q, 1, i - 1) \o SubSeq(q, i + 1, Len(q))

Queued(w) == Len(SelectSeq(queue, LAMBDA e : e.window = w))

-----------------------------------------------------------------------------
(* close_window and open_window. *)

\* close_window with the flush outside the guard on the window handle.
close_window_flushing(s) ==
  LET s1 == IF s.gsg # 0
            THEN Call([s EXCEPT !.gsg = 0, !.current = << 0, 0 >>],
                      [fn |-> "glXMakeCurrent", drawable |-> 0, context |-> 0])
            ELSE s
      s2 == IF s1.ic
            THEN Call([s1 EXCEPT !.ic = FALSE], [fn |-> "XDestroyIC"])
            ELSE s1
      s3 == IF s2.xwindow # 0
            THEN Call([s2 EXCEPT !.xwindow = 0, !.pending = << >>],
                      [fn |-> "XDestroyWindow", window |-> s2.xwindow])
            ELSE s2
  IN Call(s3, [fn |-> "XFlush"])

\* close_window destroying the window but keeping its handle.
close_window_dangling(s) ==
  LET s1 == IF s.gsg # 0
            THEN Call([s EXCEPT !.gsg = 0, !.current = << 0, 0 >>],
                      [fn |-> "glXMakeCurrent", drawable |-> 0, context |-> 0])
            ELSE s
      s2 == IF s1.ic
            THEN Call([s1 EXCEPT !.ic = FALSE], [fn |-> "XDestroyIC"])
            ELSE s1
      s3 == IF s2.xwindow # 0
            THEN Calls([s2 EXCEPT !.pending = << >>],
                       << [fn |-> "XDestroyWindow", window |-> s2.xwindow],
                          [fn |-> "XFlush"] >>)
            ELSE s2
  IN s3

\* close_window(): each of the three releases is guarded on its own.
close_window(s) ==
  LET s1 == IF s.gsg # 0
            THEN Call([s EXCEPT !.gsg = 0, !.current = << 0, 0 >>],
                      [fn |-> "glXMakeCurrent", drawable |-> 0, context |-> 0])
            ELSE s
      s2 == IF s1.ic
            THEN Call([s1 EXCEPT !.ic = FALSE], [fn |-> "XDestroyIC"])
            ELSE s1
      s3 == IF s2.xwindow # 0
            THEN Calls([s2 EXCEPT !.xwindow = 0, !.pending = << >>],
                       << [fn |-> "XDestroyWindow", window |-> s2.xwindow],
                          [fn |-> "XFlush"] >>)
            ELSE s2
  IN s3

\* What the environment decides for one run of open_window: whether the GSG
\* finds a visual, whether XCreateWindow gives a window, whether the context is
\* valid and passes verify_hardware_software; whether the pipe has an input
\* method and XCreateIC gives a context.
OpenOutcomes == { "no_visual", "create_failed", "invalid", "unverified", "ok" }

\* A variant that maps the window before the context is validated.
open_window_mapping_first(s, outcome, ic_made, found) ==
  LET s1 == [s EXCEPT !.gsg = 1]
      p1 == IF has(s.properties, "origin") THEN s.properties
            ELSE set_property(s.properties, "origin", << 0, 0 >>)
      p2 == IF has(p1, "size") THEN p1 ELSE set_property(p1, "size", DefaultSize)
      s2 == [s1 EXCEPT !.properties = p2]
      id == 1
      s3 == Call([s2 EXCEPT !.xwindow = id, !.queue = << >>],
                 [fn |-> "XCreateWindow", window |-> id,
                  origin |-> p2.origin, size |-> p2.size])
      hints == set_wm_properties(p2, FALSE)
      s4 == Calls([s3 EXCEPT !.wm = hints.locals], hints.calls)
      s5 == [s4 EXCEPT !.ic = ic_made]
      s6 == IF get_flag(p2, "cursor_hidden")
            THEN Call(s5, [fn |-> "XDefineCursor", cursor |-> "hidden"]) ELSE s5
      s7 == Call([s6 EXCEPT !.current = << id, 1 >>],
                 [fn |-> "glXMakeCurrent", drawable |-> id, context |-> 1])
  IN CASE outcome = "no_visual" -> [s |-> s1, ret |-> FALSE]
       [] outcome = "create_failed" ->
            [s |-> Call([s2 EXCEPT !.xwindow = 0],
                        [fn |-> "XCreateWindow", window |-> 0,
                         origin |-> p2.origin, size |-> p2.size]),
             ret |-> FALSE]
       [] outcome \in { "invalid", "unverified" } ->
            [s |-> close_window(Call(s7, [fn |-> "XMapWindow", window |-> id])),
             ret |-> FALSE]
       [] OTHER ->
            LET s8 == Call(s7, [fn |-> "XMapWindow", window |-> id])
            IN [s |-> IF get_flag(p2, "raw_mice") THEN open_raw_mice(s8, found)
                      ELSE s8,
                ret |-> TRUE]

\* open_window(): the state it leaves and what it returns.  XCreateWindow gives
\* an id no window had before, so check_event never again accepts what is
\* still queued for a window destroyed earlier: the model drops those events
\* here and lets 1 stand for the new id.
open_window(s, outcome, ic_made, found) ==
  LET s1 == [s EXCEPT !.gsg = 1]
      p1 == IF has(s.properties, "origin") THEN s.properties
            ELSE set_property(s.properties, "origin", << 0, 0 >>)
      p2 == IF has(p1, "size") THEN p1 ELSE set_property(p1, "size", DefaultSize)
      s2 == [s1 EXCEPT !.properties = p2]
      id == 1
      s3 == Call([s2 EXCEPT !.xwindow = id, !.queue = << >>],
                 [fn |-> "XCreateWindow", window |-> id,
                  origin |-> p2.origin, size |-> p2.size])
      hints == set_wm_properties(p2, FALSE)
      s4 == Calls([s3 EXCEPT !.wm = hints.locals], hints.calls)
      s5 == [s4 EXCEPT !.ic = ic_made]
      s6 == IF get_flag(p2, "cursor_hidden")
            THEN Call(s5, [fn |-> "XDefineCursor", cursor |-> "hidden"]) ELSE s5
      s7 == Call([s6 EXCEPT !.current = << id, 1 >>],
                 [fn |-> "glXMakeCurrent", drawable |-> id, context |-> 1])
  IN CASE outcome = "no_visual" -> [s |-> s1, ret |-> FALSE]
       [] outcome = "create_failed" ->
            [s |-> Call([s2 EXCEPT !.xwindow = 0],
                        [fn |-> "XCreateWindow", window |-> 0,
                         origin |-> p2.origin, size |-> p2.size]),
             ret |-> FALSE]
       [] outcome \in { "invalid", "unverified" } ->
            [s |-> close_window(s7), ret |-> FALSE]
       [] OTHER ->
            LET s8 == Call(s7, [fn |-> "XMapWindow", window |-> id])
            IN [s |-> IF get_flag(p2, "raw_mice") THEN open_raw_mice(s8, found)
                      ELSE s8,
                ret |-> TRUE]

-----------------------------------------------------------------------------
(* set_properties_now. *)

\* The fullscreen derivation at the head of set_properties_now.
ImplyFullscreen(p) ==
  IF get_flag(p, "fullscreen")
  THEN set_property(set_property(set_property(p, "undecorated", TRUE),
                                 "origin", << 0, 0 >>), "size", DisplaySize)
  ELSE p

\* GraphicsWindow::set_properties_now: a window that is not open takes every
\* property into the model at once and leaves nothing to do; an open window
\* leaves the properties to the derived class.
base_set_properties_now(s, p) ==
  IF get_flag(s.properties, "open")
  THEN [s |-> s, rest |-> p]
  ELSE [s |-> [s EXCEPT !.properties = add_properties(@, p)], rest |-> NoProperties]

\* The properties stored into _properties right away: title, fullscreen,
\* z_order and cursor_hidden.
StoredNow == { "title", "fullscreen", "z_order", "cursor_hidden" }

StoreNowNoTitle(model, p) ==
  [g \in DOMAIN model \cup (DOMAIN p \cap (StoredNow \ { "title" })) |->
     IF g \in DOMAIN p \cap (StoredNow \ { "title" }) THEN p[g] ELSE model[g]]

\* Every property of the delta stored right away, origin and size too.
StoreNowAll(model, p) == add_properties(model, p)

StoreNow(model, p) ==
  [g \in DOMAIN model \cup (DOMAIN p \cap StoredNow) |->
     IF g \in DOMAIN p \cap StoredNow THEN p[g] ELSE model[g]]

ValueMaskNoOrigin(p) == DOMAIN p \cap { "size", "z_order" }

\* value_mask: which of CWX|CWY, CWWidth|CWHeight, CWStackMode are set.
ValueMask(p) == DOMAIN p \cap { "origin", "size", "z_order" }

stack_mode(z) ==
  CASE z = "Z_bottom" -> "Below" [] z = "Z_normal" -> "TopIf" [] z = "Z_top" -> "Above"

\* The XWindowChanges members the request carries.
Changes(p) ==
  LET o == IF has(p, "origin") THEN [x |-> p.origin[1], y |-> p.origin[2]] ELSE << >>
      z == IF has(p, "size") THEN [width |-> p.size[1], height |-> p.size[2]] ELSE << >>
      k == IF has(p, "z_order") THEN [stack_mode |-> stack_mode(p.z_order)] ELSE << >>
  IN add_properties(add_properties(o, z), k)

\* set_properties_now(properties) on a window whose pipe is set.
set_properties_now(s, d) ==
  LET p0 == ImplyFullscreen(d)
      b  == base_set_properties_now(s, p0)
      p  == b.rest
      wm_properties == add_properties(b.s.properties, p)
      s1 == [b.s EXCEPT !.properties = StoreNow(@, p)]
      s2 == IF ValueMask(p) # {}
            THEN [SendGeometry(s1, "XReconfigureWMWindow", Changes(p), TRUE)
                    EXCEPT !.awaiting_configure = TRUE]
            ELSE s1
      s3 == IF has(p, "cursor_hidden")
            THEN Call(s2, [fn |-> "XDefineCursor",
                           cursor |-> IF p.cursor_hidden THEN "hidden" ELSE "None"])
            ELSE s2
      s4 == IF has(p, "foreground")
            THEN Call(s3, [fn |-> "XSetInputFocus",
                           focus |-> IF p.foreground THEN "window" ELSE "PointerRoot"])
            ELSE s3
      hints == set_wm_properties(wm_properties, TRUE)
  IN IF ~is_any_specified(p) THEN b.s
     ELSE Calls([s4 EXCEPT !.wm = hints.locals], hints.calls)

-----------------------------------------------------------------------------
(* Key translation. *)

\* The keyboard of the model: XLookupKeysym of each key code.
KeyCodes == { 1, 2, 3 }

XLookupKeysym(keycode) ==
  CASE keycode = 1 -> "XK_a" [] keycode = 2 -> "XK_Shift_L" [] OTHER -> "XK_eacute"

\* get_button: the switch over the keysym; a keysym without a case gives
\* ButtonHandle::none().
get_button(e) ==
  LET key == XLookupKeysym(e.keycode)
  IN CASE key = "XK_a" -> "a"
       [] key = "XK_Shift_L" -> "shift"
       [] OTHER -> "none"

\* ButtonHandle::has_ascii_equivalent
has_ascii_equivalent(button) == button = "a"

\* XwcLookupString through the input context: the text the key composes.
XwcLookupString(e) ==
  LET key == XLookupKeysym(e.keycode)
  IN CASE key = "XK_a" -> << "a" >>
       [] key = "XK_eacute" -> << "eacute" >>
       [] OTHER -> << >>

RECURSIVE Keystrokes(_)
Keystrokes(text) ==
  IF text = << >> THEN << >>
  ELSE << [kind |-> "keystroke", what |-> Head(text)] >> \o Keystrokes(Tail(text))

\* A variant whose fallback gives a keystroke for every key.
handle_keystroke_always(s, e) ==
  LET s1 == set_pointer_in_window(s, e.x, e.y)
  IN IF s.ic
     THEN [s1 EXCEPT !.out = @ \o Keystrokes(XwcLookupString(e))]
     ELSE Emit(s1, [kind |-> "keystroke", what |-> XLookupKeysym(e.keycode)])

handle_keystroke(s, e) ==
  LET s1 == set_pointer_in_window(s, e.x, e.y)
  IN IF s.ic
     THEN [s1 EXCEPT !.out = @ \o Keystrokes(XwcLookupString(e))]
     ELSE IF has_ascii_equivalent(get_button(e))
          THEN Emit(s1, [kind |-> "keystroke", what |-> get_button(e)])
          ELSE s1

handle_keypress(s, e) ==
  LET s1 == set_pointer_in_window(s, e.x, e.y)
  IN IF get_button(e) # "none"
     THEN Emit(s1, [kind |-> "button_down", what |-> get_button(e)])
     ELSE s1

handle_keyrelease(s, e) ==
  LET s1 == set_pointer_in_window(s, e.x, e.y)
  IN IF get_button(e) # "none"
     THEN Emit(s1, [kind |-> "button_up", what |-> get_button(e)])
     ELSE s1

\* get_mouse_button
get_mouse_button(e) ==
  CASE e.button = 4 -> "wheel_up"
    [] e.button = 5 -> "wheel_down"
    [] OTHER -> "mouse"

-----------------------------------------------------------------------------
(* process_events: one pass of its loop body, for the event taken. *)

NoEvent == [type |-> "none"]

configure_notify_adopting(s, e) ==
  system_changed_properties([s EXCEPT !.awaiting_configure = FALSE],
                            [size |-> << e.width, e.height >>])

\* A variant that leaves _awaiting_configure as it was.
configure_notify_unacknowledged(s, e) ==
  IF get_flag(s.properties, "fixed_size")
  THEN IF e.width # s.properties.size[1] \/ e.height # s.properties.size[2]
       THEN SendGeometry(s, "XConfigureWindow",
                         [width |-> s.properties.size[1],
                          height |-> s.properties.size[2]], FALSE)
       ELSE s
  ELSE system_changed_properties(s, [size |-> << e.width, e.height >>])

\* A variant that takes the reported size without telling the engine.
configure_notify_silent(s, e) ==
  LET s1 == [s EXCEPT !.awaiting_configure = FALSE]
  IN IF get_flag(s.properties, "fixed_size")
     THEN IF e.width # s.properties.size[1] \/ e.height # s.properties.size[2]
          THEN SendGeometry(s1, "XConfigureWindow",
                            [width |-> s.properties.size[1],
                             height |-> s.properties.size[2]], FALSE)
          ELSE s1
     ELSE [s1 EXCEPT !.properties = add_properties(@, [size |-> << e.width, e.height >>])]

\* The ConfigureNotify case of the switch.
configure_notify(s, e) ==
  LET s1 == [s EXCEPT !.awaiting_configure = FALSE]
  IN IF get_flag(s.properties, "fixed_size")
     THEN IF e.width # s.properties.size[1] \/ e.height # s.properties.size[2]
          THEN SendGeometry(s1, "XConfigureWindow",
                            [width |-> s.properties.size[1],
                             height |-> s.properties.size[2]], FALSE)
          ELSE s1
     ELSE system_changed_properties(s1, [size |-> << e.width, e.height >>])

\* The ClientMessage case without the test of the first datum.
client_message_any_datum(s, e, close_request) ==
  IF close_request # ""
  THEN Call(s, [fn |-> "throw_event", name |-> close_request])
  ELSE system_changed_properties(close_window(s), [open |-> FALSE])

\* The ClientMessage case of the switch.
client_message(s, e, close_request) ==
  IF e.datum # "WM_DELETE_WINDOW" THEN s
  ELSE IF close_request # ""
       THEN Call(s, [fn |-> "throw_event", name |-> close_request])
       ELSE system_changed_properties(close_window(s), [open |-> FALSE])

\* The switch over event.type.
dispatch(s, e, close_request) ==
  CASE e.type = "ConfigureNotify" -> configure_notify(s, e)
    [] e.type = "ButtonPress" ->
         Emit(set_pointer_in_window(s, e.x, e.y),
              [kind |-> "button_down", what |-> get_mouse_button(e)])
    [] e.type = "ButtonRelease" ->
         Emit(set_pointer_in_window(s, e.x, e.y),
              [kind |-> "button_up", what |-> get_mouse_button(e)])
    [] e.type = "MotionNotify" -> set_pointer_in_window(s, e.x, e.y)
    [] e.type = "KeyPress" -> handle_keypress(handle_keystroke(s, e), e)
    [] e.type = "KeyRelease" -> s
    [] e.type = "EnterNotify" -> set_pointer_in_window(s, e.x, e.y)
    [] e.type = "LeaveNotify" -> set_pointer_out_of_window(s)
    [] e.type = "FocusIn" -> system_changed_properties(s, [foreground |-> TRUE])
    [] e.type = "FocusOut" -> system_changed_properties(s, [foreground |-> FALSE])
    [] e.type = "UnmapNotify" -> system_changed_properties(s, [minimized |-> TRUE])
    [] e.type = "MapNotify" ->
         Call(system_changed_properties(s, [minimized |-> FALSE]),
              [fn |-> "XSetInputFocus", focus |-> "window"])
    [] e.type = "ClientMessage" -> client_message(s, e, close_request)
    [] OTHER -> s

\* XFilterEvent: the input method keeps the event for itself.
XFilterEvent(e) == "filtered" \in DOMAIN e /\ e.filtered

\* The unsigned subtraction event.xkey.time - keyrelease_event.time.
TimeModulus == 8

\* The same difference taken as a signed number.
TimeDifferenceSigned(a, b) == a - b

TimeDifference(a, b) == (a - b) % TimeModulus

IsRepeatStrict(e, held) ==
  /\ e.type = "KeyPress"
  /\ e.keycode = held.keycode
  /\ TimeDifference(e.time, held.time) < 1

\* The test of the key-repeat look-ahead.
IsRepeat(e, held) ==
  /\ e.type = "KeyPress"
  /\ e.keycode = held.keycode
  /\ TimeDifference(e.time, held.time) <= 1

loop_body_late_release(s, got, held, e, close_request) ==
  IF XFilterEvent(e) THEN [s |-> s, got |-> got, held |-> held]
  ELSE IF got /\ IsRepeat(e, held)
       THEN [s |-> handle_keypress(handle_keystroke(s, e), e),
             got |-> FALSE, held |-> NoEvent]
       ELSE LET s1 == dispatch(s, e, close_request)
            IN [s |-> IF got THEN handle_keyrelease(s1, held) ELSE s1,
                got |-> e.type = "KeyRelease",
                held |-> IF e.type = "KeyRelease" THEN e ELSE NoEvent]

\* One pass of the loop body with event e taken from the queue: the window's
\* state, and the two locals of the look-ahead, afterwards.
loop_body(s, got, held, e, close_request) ==
  IF XFilterEvent(e) THEN [s |-> s, got |-> got, held |-> held]
  ELSE IF got /\ IsRepeat(e, held)
       THEN [s |-> handle_keypress(handle_keystroke(s, e), e),
             got |-> FALSE, held |-> NoEvent]
       ELSE LET s1 == IF got THEN handle_keyrelease(s, held) ELSE s
            IN [s |-> dispatch(s1, e, close_request),
                got |-> e.type = "KeyRelease",
                held |-> IF e.type = "KeyRelease" THEN e ELSE NoEvent]

final_flush_dropped(s, got, held) == s

\* The flush after the loop.
final_flush(s, got, held) == IF got THEN handle_keyrelease(s, held) ELSE s

-----------------------------------------------------------------------------
(* The operations, as steps of the window thread and of the draw thread.    *)
(* process_events holds the display connection's lock from its first line   *)
(* to its return, so begin_frame's locked block waits while wpc is "drain". *)

NoLog == /\ calls' = << >>
         /\ unlocked' = << >>
         /\ out' = << >>
         /\ wm' = NoWm
         /\ delta' = NoProperties
         /\ ev' = NoEvent
         /\ staged' = NoEvent

Locals == << got_keyrelease_event, keyrelease_event >>

\* The engine opens the window: open_window(), and the model is marked open
\* when it succeeds.
OpenWindow ==
  /\ wpc = "idle"
  /\ ~get_flag(properties, "open")
  /\ \E outcome \in OpenOutcomes, ic_made \in BOOLEAN,
        found \in (IF get_flag(properties, "raw_mice")
                   THEN { f \in 0..Cardinality(MouseNodes) :
                            Len(mice.info) + f <= MaxSlots }
                   ELSE { 0 }) :
       LET r == open_window(Held, outcome, ic_made, found)
       IN /\ Install(IF r.ret
                     THEN [r.s EXCEPT !.properties = set_property(@, "open", TRUE)]
                     ELSE r.s)
          /\ ret' = IF r.ret THEN "true" ELSE "false"
  /\ op' = "open_window"
  /\ delta' = NoProperties
  /\ ev' = NoEvent
  /\ staged' = NoEvent
  /\ UNCHANGED << Locals, wpc, close_request_event >>

\* The engine closes the window: close_window(), and the model is marked not
\* open.
CloseWindow ==
  /\ wpc = "idle"
  /\ Install([close_window(Held) EXCEPT !.properties = set_property(@, "open", FALSE)])
  /\ op' = "close_window"
  /\ ret' = "none"
  /\ delta' = NoProperties
  /\ ev' = NoEvent
  /\ staged' = NoEvent
  /\ UNCHANGED << Locals, wpc, close_request_event >>

SetPropertiesNow(d) ==
  /\ wpc = "idle"
  /\ (get_flag(properties, "open") /\ ValueMask(ImplyFullscreen(d)) # {})
        => Len(pending) < MaxPending
  /\ Install(set_properties_now(Held, d))
  /\ delta' = d
  /\ op' = "set_properties_now"
  /\ ret' = "none"
  /\ ev' = NoEvent
  /\ staged' = NoEvent
  /\ UNCHANGED << Locals, wpc, close_request_event >>

begin_frame_unawaited(s, gsg_says) ==
  IF s.gsg = 0 THEN [s |-> s, ret |-> "false"]
  ELSE [s |-> unlock(Calls(ReMutexHolder([s EXCEPT !.current = << s.xwindow, 1 >>]),
                            << [fn |-> "glXMakeCurrent", drawable |-> s.xwindow,
                                context |-> 1],
                               [fn |-> "reset_if_new"],
                               [fn |-> "set_current_properties"],
                               [fn |-> "gsg_begin_frame"] >>)),
        ret |-> gsg_says]

\* begin_frame(): the two tests that skip the frame; otherwise, under the
\* connection's lock, the context is made current unless it is already, and
\* the GSG is told the frame begins and decides what begin_frame returns.
begin_frame(s, gsg_says) ==
  IF s.gsg = 0 THEN [s |-> s, ret |-> "false"]
  ELSE IF s.awaiting_configure THEN [s |-> s, ret |-> "false"]
  ELSE LET s0 == ReMutexHolder(s)
           s1 == unlock(IF s0.current = << s.xwindow, 1 >> THEN s0
                         ELSE Call([s0 EXCEPT !.current = << s.xwindow, 1 >>],
                                   [fn |-> "glXMakeCurrent", drawable |-> s.xwindow,
                                    context |-> 1]))
       IN [s |-> Calls(s1, << [fn |-> "reset_if_new"],
                              [fn |-> "set_current_properties"],
                              [fn |-> "gsg_begin_frame"] >>),
           ret |-> gsg_says]

BeginFrame ==
  /\ (gsg # 0 /\ ~awaiting_configure) => wpc = "idle"
  /\ \E gsg_says \in { "true", "false" } :
       LET r == begin_frame(Cur, gsg_says)
       IN Install(r.s) /\ ret' = r.ret
  /\ op' = "begin_frame"
  /\ delta' = NoProperties
  /\ ev' = NoEvent
  /\ staged' = NoEvent
  /\ UNCHANGED << Locals, wpc, close_request_event >>

\* begin_flip(): with a GSG, the buffers are swapped under the connection's
\* lock; the window handle is not looked at.
begin_flip(s) ==
  IF s.gsg # 0
  THEN unlock(Call(ReMutexHolder(s), [fn |-> "glXSwapBuffers", window |-> s.xwindow]))
  ELSE s

\* The draw thread flips; its locked block waits while process_events runs.
BeginFlip ==
  /\ gsg # 0 => wpc = "idle"
  /\ Install(begin_flip(Cur))
  /\ op' = "begin_flip"
  /\ ret' = "none"
  /\ delta' = NoProperties
  /\ ev' = NoEvent
  /\ staged' = NoEvent
  /\ UNCHANGED << Locals, wpc, close_request_event >>

\* begin_frame() and begin_flip() as the draw thread runs them beside the
\* window thread: the tests on _gsg and _awaiting_configure are made without
\* the lock, and the locked block is entered when process_events has
\* returned, with glxgsg still the pointer read before the wait.

\* begin_frame() from its locked block on.  With _gsg null by then,
\* _gsg->set_current_properties dereferences a null pointer: the call may
\* return anything or end the program.
begin_frame_locked(s, gsg_says) ==
  LET s0 == ReMutexHolder(s)
      s1 == unlock(IF s0.current = << s.xwindow, 1 >> THEN s0
                   ELSE Call([s0 EXCEPT !.current = << s.xwindow, 1 >>],
                             [fn |-> "glXMakeCurrent", drawable |-> s.xwindow,
                              context |-> 1]))
      s2 == Call(s1, [fn |-> "reset_if_new"])
  IN IF s.gsg = 0 THEN [s |-> s2, ret |-> gsg_says]
     ELSE [s |-> Calls(s2, << [fn |-> "set_current_properties"],
                              [fn |-> "gsg_begin_frame"] >>),
           ret |-> gsg_says]

DrawFrameTests ==
  /\ dpc = "idle"
  /\ LET skip == gsg = 0 \/ awaiting_configure
     IN /\ Install([Cur EXCEPT !.dpc = IF skip THEN "idle" ELSE "begin_frame"])
        /\ ret' = IF skip THEN "false" ELSE "none"
  /\ op' = "begin_frame"
  /\ delta' = NoProperties
  /\ ev' = NoEvent
  /\ staged' = NoEvent
  /\ UNCHANGED << Locals, wpc, close_request_event >>

DrawFrameLocked ==
  /\ dpc = "begin_frame"
  /\ wpc = "idle"
  /\ \E gsg_says \in { "true", "false" } \cup (IF gsg = 0 THEN { "crash" } ELSE {}) :
       LET r == begin_frame_locked(Cur, gsg_says)
       IN Install([r.s EXCEPT !.dpc = "idle"]) /\ ret' = r.ret
  /\ op' = "begin_frame"
  /\ delta' = NoProperties
  /\ ev' = NoEvent
  /\ staged' = NoEvent
  /\ UNCHANGED << Locals, wpc, close_request_event >>

\* begin_flip() from its locked block on.
begin_flip_locked(s) ==
  unlock(Call(ReMutexHolder(s), [fn |-> "glXSwapBuffers", window |-> s.xwindow]))

DrawFlipTests ==
  /\ dpc = "idle"
  /\ Install([Cur EXCEPT !.dpc = IF gsg = 0 THEN "idle" ELSE "begin_flip"])
  /\ op' = "begin_flip"
  /\ ret' = "none"
  /\ delta' = NoProperties
  /\ ev' = NoEvent
  /\ staged' = NoEvent
  /\ UNCHANGED << Locals, wpc, close_request_event >>

DrawFlipLocked ==
  /\ dpc = "begin_flip"
  /\ wpc = "idle"
  /\ Install([begin_flip_locked(Cur) EXCEPT !.dpc = "idle"])
  /\ op' = "begin_flip"
  /\ ret' = "none"
  /\ delta' = NoProperties
  /\ ev' = NoEvent
  /\ staged' = NoEvent
  /\ UNCHANGED << Locals, wpc, close_request_event >>

\* move_pointer without the test of the foreground flag.
move_pointer_unfocused(s, device, x, y) ==
  IF device = 0
  THEN IF ~s.pointer.in_window
       THEN [s |-> s, ret |-> "false"]
       ELSE [s |-> set_pointer_in_window(
                     Call(s, [fn |-> "XWarpPointer", window |-> s.xwindow,
                              x |-> x, y |-> y]), x, y),
             ret |-> "true"]
  ELSE IF device < 1 \/ device >= input_devices_size(s)
       THEN [s |-> s, ret |-> "false"]
       ELSE [s |-> [s EXCEPT !.mice.devices[device] =
                               [in_window |-> TRUE, x |-> x, y |-> y]],
             ret |-> "true"]

\* move_pointer refusing the last raw slot.
move_pointer_short(s, device, x, y) ==
  IF device = 0
  THEN IF ~get_flag(s.properties, "foreground") \/ ~s.pointer.in_window
       THEN [s |-> s, ret |-> "false"]
       ELSE [s |-> set_pointer_in_window(
                     Call(s, [fn |-> "XWarpPointer", window |-> s.xwindow,
                              x |-> x, y |-> y]), x, y),
             ret |-> "true"]
  ELSE IF device < 1 \/ device >= input_devices_size(s) - 1
       THEN [s |-> s, ret |-> "false"]
       ELSE [s |-> [s EXCEPT !.mice.devices[device] =
                               [in_window |-> TRUE, x |-> x, y |-> y]],
             ret |-> "true"]

\* move_pointer(device, x, y)
move_pointer(s, device, x, y) ==
  IF device = 0
  THEN IF ~get_flag(s.properties, "foreground") \/ ~s.pointer.in_window
       THEN [s |-> s, ret |-> "false"]
       ELSE [s |-> set_pointer_in_window(
                     Call(s, [fn |-> "XWarpPointer", window |-> s.xwindow,
                              x |-> x, y |-> y]), x, y),
             ret |-> "true"]
  ELSE IF device < 1 \/ device >= input_devices_size(s)
       THEN [s |-> s, ret |-> "false"]
       ELSE [s |-> [s EXCEPT !.mice.devices[device] =
                               [in_window |-> TRUE, x |-> x, y |-> y]],
             ret |-> "true"]

\* The application moves a pointer; it may do so while the window thread is
\* in process_events.
MovePointer(device, x, y) ==
  /\ LET r == move_pointer(Cur, device, x, y)
     IN Install(r.s) /\ ret' = r.ret
  /\ op' = "move_pointer"
  /\ delta' = [device |-> device, x |-> x, y |-> y]
  /\ ev' = NoEvent
  /\ staged' = NoEvent
  /\ UNCHANGED << Locals, wpc, close_request_event >>

\* What the raw devices deliver between two polls, and how each device's
\* reads end: for device d, reads[d] is [arrived, hard].  A device that was
\* closed delivers nothing.
Arrivals == UNION { [1..n -> Bytes] : n \in 0..MaxRead }

ReadsOf(m, d) ==
  { r \in [arrived : IF d = m.moved /\ m.info[d].fd >= 0 THEN Arrivals ELSE { << >> },
           hard : IF m.info[d].fd >= 0 THEN BOOLEAN ELSE { FALSE }] : TRUE }

RECURSIVE ReadsUpTo(_, _)
ReadsUpTo(m, n) ==
  IF n = 0 THEN { << >> }
  ELSE { Append(reads, r) : reads \in ReadsUpTo(m, n - 1), r \in ReadsOf(m, n) }

Reads(m) == ReadsUpTo(m, Len(m.info))

\* process_events up to its loop: it returns at once on a window that is not
\* there; otherwise it polls the raw mice.
process_events_begin(readset) ==
  /\ wpc = "idle"
  /\ wpc' = IF xwindow = 0 THEN "idle" ELSE "drain"
  /\ \E reads \in readset :
       LET s == IF xwindow = 0 THEN Held ELSE poll_raw_mice(Held, reads, 1)
       IN /\ \A i \in 1..Len(s.mice.devices) :
               s.mice.devices[i].x <= MaxCoord /\ s.mice.devices[i].y <= MaxCoord
          /\ Install(s)
  /\ got_keyrelease_event' = FALSE
  /\ keyrelease_event' = NoEvent
  /\ op' = "process_events"
  /\ ret' = "none"
  /\ delta' = NoProperties
  /\ ev' = NoEvent
  /\ staged' = NoEvent
  /\ UNCHANGED close_request_event

ProcessEventsBegin == process_events_begin(Reads(mice))

\* The same with the raw devices delivering whole records of every kind that
\* input_event tells apart.
RecordBytes == 0..6

MaxRecords == MaxRead \div RecordSize

Records == { r \in [1..RecordSize -> RecordBytes] :
               \A i \in 2..RecordSize : r[i] \in Bytes }

RECURSIVE Flatten(_)
Flatten(rs) == IF rs = << >> THEN << >> ELSE Head(rs) \o Flatten(Tail(rs))

RecordArrivals == { Flatten(rs) : rs \in UNION { [1..n -> Records] : n \in 0..MaxRecords } }

RecordReads(m) ==
  { reads \in [DOMAIN m.info -> [arrived : RecordArrivals, hard : { FALSE }]] :
      \A d \in DOMAIN m.info : d # m.moved => reads[d].arrived = << >> }

ProcessEventsBeginRecords == process_events_begin(RecordReads(mice))

\* One pass of the loop: XCheckIfEvent takes the first queued event that
\* check_event accepts.
ProcessEventsLoop ==
  /\ wpc = "drain"
  /\ FirstMatch(Held, queue, 1) > 0
  /\ LET i == FirstMatch(Held, queue, 1)
         e == queue[i]
         r == loop_body([Held EXCEPT !.queue = Without(queue, i)],
                        got_keyrelease_event, keyrelease_event, e,
                        close_request_event)
     IN /\ Len(r.s.pending) <= MaxPending
        /\ Install(r.s)
        /\ got_keyrelease_event' = r.got
        /\ keyrelease_event' = r.held
        /\ ev' = e
        /\ staged' = keyrelease_event
  /\ op' = "loop_body"
  /\ ret' = "none"
  /\ delta' = NoProperties
  /\ UNCHANGED << wpc, close_request_event >>

\* XCheckIfEvent finds no event for the window: the flush after the loop, and
\* process_events returns.
ProcessEventsEnd ==
  /\ wpc = "drain"
  /\ FirstMatch(Held, queue, 1) = 0
  /\ Install(final_flush(Held, got_keyrelease_event, keyrelease_event))
  /\ got_keyrelease_event' = FALSE
  /\ keyrelease_event' = NoEvent
  /\ wpc' = "idle"
  /\ op' = "final_flush"
  /\ ret' = "none"
  /\ delta' = NoProperties
  /\ ev' = NoEvent
  /\ staged' = keyrelease_event
  /\ UNCHANGED close_request_event

-----------------------------------------------------------------------------
(* The environment: the server, the window manager and the user. *)

EnvStep ==
  /\ op' = "environment"
  /\ ret' = "none"
  /\ NoLog
  /\ UNCHANGED << xwindow, gsg, ic, awaiting_configure, properties, pointer, mice,
                  Locals, wpc, dpc, current, close_request_event >>

ConfigureNotify(w, size, ack) ==
  [type |-> "ConfigureNotify", window |-> w, width |-> size[1], height |-> size[2],
   ack |-> ack]

\* The window manager carries out the oldest geometry request, with the size
\* it chooses, and the server reports the new configuration.
WMConfigure ==
  /\ pending # << >>
  /\ xwindow # 0
  /\ Queued(xwindow) < MaxQueue
  /\ \E size \in Sizes :
       queue' = Append(queue, ConfigureNotify(xwindow, size, Head(pending).ack))
  /\ pending' = Tail(pending)
  /\ EnvStep

\* The request changes nothing on the server, so no event reports it.
WMIgnore ==
  /\ pending # << >>
  /\ pending' = Tail(pending)
  /\ queue' = queue
  /\ EnvStep

\* An event for the window arrives on the connection.
XEvent(e) ==
  /\ xwindow # 0
  /\ Queued(xwindow) < MaxQueue
  /\ queue' = Append(queue, [e EXCEPT !.window = xwindow])
  /\ pending' = pending
  /\ EnvStep

-----------------------------------------------------------------------------
(* The specification of the window's lifecycle and geometry negotiation. *)

Deltas ==
  { [title |-> "A"],
    [origin |-> << 1, 1 >>],
    [size |-> << 1, 2 >>],
    [fixed_size |-> TRUE] }

Events ==
  { ConfigureNotify(0, size, FALSE) : size \in Sizes }
    \cup { [type |-> "ClientMessage", window |-> 0, datum |-> "WM_DELETE_WINDOW"] }

\* The constructor: no window, no input context, nothing awaited.  The live
\* model starts as not open.
Constructed ==
  [xwindow |-> 0, gsg |-> 0, ic |-> FALSE, awaiting_configure |-> FALSE,
   properties |-> [open |-> FALSE],
   pointer |-> [in_window |-> FALSE, x |-> 0, y |-> 0],
   mice |-> NoMice,
   queue |-> << >>, pending |-> << >>, current |-> << 0, 0 >>,
   wm |-> NoWm, calls |-> << >>, out |-> << >>, lock |-> 0, unlocked |-> << >>,
   dpc |-> "idle"]

\* The window is in state s, between two calls.
StateIs(s) ==
  /\ xwindow = s.xwindow
  /\ gsg = s.gsg
  /\ ic = s.ic
  /\ awaiting_configure = s.awaiting_configure
  /\ properties = s.properties
  /\ pointer = s.pointer
  /\ mice = s.mice
  /\ queue = s.queue
  /\ pending = s.pending
  /\ current = s.current
  /\ wm = s.wm
  /\ calls = s.calls
  /\ unlocked = s.unlocked
  /\ out = s.out
  /\ dpc = s.dpc
  /\ got_keyrelease_event = FALSE
  /\ keyrelease_event = NoEvent
  /\ wpc = "idle"
  /\ delta = NoProperties
  /\ ev = NoEvent
  /\ staged = NoEvent

Init ==
  /\ StateIs(Constructed)
  /\ op = "constructor"
  /\ ret = "none"
  /\ close_request_event = ""

Next ==
  \/ OpenWindow
  \/ CloseWindow
  \/ \E d \in Deltas : SetPropertiesNow(d)
  \/ BeginFrame
  \/ ProcessEventsBegin
  \/ ProcessEventsLoop
  \/ ProcessEventsEnd
  \/ WMConfigure
  \/ WMIgnore
  \/ \E e \in Events : XEvent(e)

Spec == Init /\ [][Next]_vars

-----------------------------------------------------------------------------
(* The specification of the event translation: a window that was opened     *)
(* with the properties p, with or without an input context, and the key and *)
(* pointer events that reach it.                                            *)

Opened(p, ic_made) ==
  LET r == open_window([Constructed EXCEPT !.properties = add_properties(@, p),
                                          !.lock = 1],
                       "ok", ic_made, Cardinality(MouseNodes))
  IN [r.s EXCEPT !.properties = set_property(@, "open", TRUE)]

KeyEvent(type, keycode, time) ==
  [type |-> type, window |-> 0, keycode |-> keycode, time |-> time,
   x |-> 0, y |-> 0, filtered |-> FALSE]

KeyEvents ==
  { KeyEvent(type, k, t) : type \in { "KeyPress", "KeyRelease" },
                           k \in KeyCodes, t \in 0..MaxTime }
    \cup { [KeyEvent("KeyPress", k, t) EXCEPT !.filtered = TRUE] :
             k \in KeyCodes, t \in 0..MaxTime }
    \cup { [type |-> "MotionNotify", window |-> 0, x |-> 1, y |-> 1],
           [type |-> "LeaveNotify", window |-> 0] }

InitKeys ==
  /\ \E ic_made \in BOOLEAN : StateIs(Opened(NoProperties, ic_made))
  /\ op = "open_window"
  /\ ret = "true"
  /\ close_request_event = ""

NextKeys ==
  \/ ProcessEventsBegin
  \/ ProcessEventsLoop
  \/ ProcessEventsEnd
  \/ \E e \in KeyEvents : Len(queue) < MaxKeys /\ XEvent(e)

SpecKeys == InitKeys /\ [][NextKeys]_vars

-----------------------------------------------------------------------------
(* The specification of the window-manager negotiation: a window opened     *)
(* with any combination of the attributes the hints are computed from, and  *)
(* the property changes applied to it afterwards.                           *)

Optional(f, values) == { NoProperties } \cup { set_property(NoProperties, f, v) : v \in values }

ZOrders == { "Z_bottom", "Z_normal", "Z_top" }

OpenProperties ==
  { add_properties(add_properties(add_properties(a, b), c), d) :
      a \in Optional("fullscreen", BOOLEAN),
      b \in Optional("undecorated", BOOLEAN),
      c \in Optional("z_order", ZOrders),
      d \in Optional("fixed_size", BOOLEAN) }

DeltasWM ==
  { [z_order |-> z] : z \in ZOrders }
    \cup { [fullscreen |-> f] : f \in BOOLEAN }
    \cup { [undecorated |-> u] : u \in BOOLEAN }
    \cup { [title |-> "A"], [title |-> "B"],
           [size |-> << 1, 2 >>],
           [fullscreen |-> TRUE, origin |-> << 1, 1 >>, size |-> << 1, 2 >>] }

InitWM ==
  /\ \E p \in OpenProperties : StateIs(Opened(ImplyFullscreen(p), FALSE))
  /\ op = "open_window"
  /\ ret = "true"
  /\ close_request_event = ""

NextWM ==
  \/ \E d \in DeltasWM : SetPropertiesNow(d)
  \/ WMIgnore

SpecWM == InitWM /\ [][NextWM]_vars

-----------------------------------------------------------------------------
(* Claims about begin_frame, set_properties_now and ConfigureNotify, checked *)
(* under Spec.                                                              *)

Issued(fn) == \E i \in 1..Len(calls) : calls[i].fn = fn

IsOpen == get_flag(properties, "open")

\* C1: begin_frame returns false whenever it is called with no GSG or with
\* _awaiting_configure set; in neither case does it make the context current
\* or tell the GSG anything.
C1_BeginFrameSkips ==
  [][(op' = "begin_frame" /\ (gsg = 0 \/ awaiting_configure))
       => (ret' = "false" /\ calls' = << >> /\ current' = current)]_vars

C1_Witness ==
  /\ op = "begin_frame"
  /\ ret = "false"
  /\ gsg = 1
  /\ xwindow # 0
  /\ awaiting_configure
  /\ calls = << >>

C3_ClearedOnlyByMatchingAck ==
  [][(awaiting_configure /\ ~awaiting_configure')
       => (op' = "loop_body" /\ IsConfigure(ev') /\ ev'.ack)]_vars

\* C4, as claimed: after a title-only delta the model's title is the delta's
\* and _awaiting_configure is false.
C4_TitleOnlyLeavesNothingPending ==
  [][(op' = "set_properties_now" /\ DOMAIN delta' = { "title" })
       => (has(properties', "title") /\ properties'.title = delta'.title
           /\ ~awaiting_configure')]_vars

\* C4, amended: after a title-only delta the model's title is the delta's,
\* no geometry request was sent and _awaiting_configure is what it was
\* before the call.
C4_TitleOnlyAppliedNow ==
  [][(op' = "set_properties_now" /\ DOMAIN delta' = { "title" })
       => (/\ has(properties', "title")
           /\ properties'.title = delta'.title
           /\ awaiting_configure' = awaiting_configure
           /\ pending' = pending
           /\ \A i \in 1..Len(calls') : calls'[i].fn # "XReconfigureWMWindow")]_vars

C4_Witness ==
  /\ op = "set_properties_now"
  /\ IsOpen
  /\ DOMAIN delta = { "title" }
  /\ properties.title = delta.title
  /\ awaiting_configure

\* C8: when a ConfigureNotify is processed for a window whose model is
\* fixed-size and the reported width or height is not the model's, a resize
\* request that carries the model's size is issued and the model's size stays.
C8_FixedSizeEnforced ==
  [][(op' = "loop_body" /\ IsConfigure(ev') /\ get_flag(properties, "fixed_size")
        /\ << ev'.width, ev'.height >> # properties.size)
       => (/\ properties'.size = properties.size
           /\ calls' = << [fn |-> "XConfigureWindow", window |-> xwindow,
                           changes |-> [width |-> properties.size[1],
                                        height |-> properties.size[2]]] >>)]_vars

C8_Witness ==
  /\ op = "loop_body"
  /\ IsConfigure(ev)
  /\ get_flag(properties, "fixed_size")
  /\ ev.width = properties.size[1]
  /\ ev.height # properties.size[2]
  /\ Issued("XConfigureWindow")

-----------------------------------------------------------------------------
(* Claims about the key-repeat look-ahead, checked under SpecKeys.  In a    *)
(* loop_body step, staged' is the release the pass found held and ev' the   *)
(* event it took.                                                           *)

Count(seq, kind) == Cardinality({ i \in 1..Len(seq) : seq[i].kind = kind })

\* The press e arrives at the time of the held release or one unit later.
MatchingPress(e, release) ==
  /\ e.type = "KeyPress"
  /\ e.keycode = release.keycode
  /\ e.time - release.time \in { 0, 1 }

\* What a press gives when nothing is held.
FromIdle(e) == loop_body(Held, FALSE, NoEvent, e, close_request_event)

C6_ButtonUpBeforeAnyEvent ==
  [][(/\ op' = "loop_body" /\ staged'.type = "KeyRelease"
      /\ ~MatchingPress(ev', staged'))
       => (/\ Len(out') >= 1
           /\ Head(out') = [kind |-> "button_up", what |-> get_button(staged')])]_vars

\* C6, amended: a held release of K followed by an event that the input
\* method does not filter and that is not a matching repeat press is handled
\* as a release first (the button-up of K, when K's keysym has a button,
\* precedes every output of the following event), and the following event is
\* then handled exactly as from Idle.
C6_GenuineReleaseFirst ==
  [][(/\ op' = "loop_body" /\ staged'.type = "KeyRelease"
      /\ ~XFilterEvent(ev') /\ ~MatchingPress(ev', staged'))
       => LET ups == IF get_button(staged') = "none" THEN << >>
                     ELSE << [kind |-> "button_up", what |-> get_button(staged')] >>
              idle == FromIdle(ev')
          IN /\ out' = ups \o idle.s.out
             /\ calls' = idle.s.calls
             /\ got_keyrelease_event' = idle.got
             /\ keyrelease_event' = idle.held]_vars

C6_Witness ==
  /\ op = "loop_body"
  /\ staged.type = "KeyRelease"
  /\ staged.keycode = 1
  /\ ev.type = "KeyPress"
  /\ ev.keycode = 2
  /\ ~XFilterEvent(ev)
  /\ out = << [kind |-> "button_up", what |-> "a"],
              [kind |-> "button_down", what |-> "shift"] >>

\* C7, as claimed: a release still held when the queue runs out is emitted as
\* a button-up before process_events returns.
C7_HeldReleaseGivesButtonUp ==
  [][(op' = "final_flush" /\ got_keyrelease_event)
       => Count(out', "button_up") = 1]_vars

\* C7, amended: a release still held when the queue runs out is handled as a
\* genuine release (a button-up is emitted when its keysym has a button)
\* before process_events returns, and nothing is held at the start or at the
\* end of a process_events call.
C7_StagingEndsWithPass ==
  [][/\ (op' = "final_flush" /\ got_keyrelease_event)
          => out' = IF get_button(keyrelease_event) = "none" THEN << >>
                    ELSE << [kind |-> "button_up",
                             what |-> get_button(keyrelease_event)] >>
     /\ op' \in { "process_events", "final_flush" } => ~got_keyrelease_event'
     /\ wpc' = "idle" => ~got_keyrelease_event']_vars

C7_Witness ==
  /\ op = "final_flush"
  /\ wpc = "idle"
  /\ staged.type = "KeyRelease"
  /\ ~got_keyrelease_event
  /\ out = << [kind |-> "button_up", what |-> "a"] >>

-----------------------------------------------------------------------------
(* Claims about set_wm_properties, checked under SpecWM.  After a step in   *)
(* which set_wm_properties ran, wm holds its argument and the three lists   *)
(* it built, and calls the requests it made.                                *)

Range(seq) == { seq[i] : i \in 1..Len(seq) }

\* The atoms written to the window's property by XChangeProperty.
Written(property) ==
  UNION { Range(calls[i].data) :
            i \in { j \in 1..Len(calls) : /\ calls[j].fn = "XChangeProperty"
                                          /\ calls[j].property = property } }

WmRan == Issued("XChangeProperty")

FullscreenAtoms == { "_NET_WM_WINDOW_TYPE_FULLSCREEN", "_NET_WM_STATE_FULLSCREEN" }

\* C9: when set_wm_properties runs with fullscreen true, the written type
\* list and the written state list each hold the fullscreen atom and the
\* action list holds (fullscreen, add); with fullscreen false or unset no
\* written list holds a fullscreen atom and the action list holds
\* (fullscreen, remove).
C9_FullscreenHints ==
  WmRan =>
    IF get_flag(wm.properties, "fullscreen")
    THEN /\ "_NET_WM_WINDOW_TYPE_FULLSCREEN" \in Written("_NET_WM_WINDOW_TYPE")
         /\ "_NET_WM_STATE_FULLSCREEN" \in Written("_NET_WM_STATE")
         /\ SetAction("_NET_WM_STATE_FULLSCREEN", "_NET_WM_STATE_ADD")
              \in Range(wm.set_data)
    ELSE /\ (Written("_NET_WM_WINDOW_TYPE") \cup Written("_NET_WM_STATE"))
              \cap FullscreenAtoms = {}
         /\ SetAction("_NET_WM_STATE_FULLSCREEN", "_NET_WM_STATE_REMOVE")
              \in Range(wm.set_data)

C9_Witness ==
  /\ op = "set_properties_now"
  /\ has(delta, "fullscreen") /\ delta.fullscreen
  /\ wm.already_mapped
  /\ "_NET_WM_WINDOW_TYPE_FULLSCREEN" \in Written("_NET_WM_WINDOW_TYPE")
  /\ "_NET_WM_STATE_FULLSCREEN" \in Written("_NET_WM_STATE")
  /\ \E i \in 1..Len(calls) :
       /\ calls[i].fn = "XSendEvent"
       /\ calls[i].state = "_NET_WM_STATE_FULLSCREEN"
       /\ calls[i].action = "_NET_WM_STATE_ADD"

\* No atom of the action list is both added and removed.
Consistent(set_data) ==
  \A a, b \in Range(set_data) : a[1] = b[1] => a[2] = b[2]

\* C10: whatever the z-order and the other attributes, the action list built
\* by set_wm_properties never holds an add and a remove of the same atom, and
\* applying the same z-order a second time builds the same type list, state
\* list and action list as the first time.
C10_ZOrderLaw ==
  /\ [](WmRan => Consistent(wm.set_data))
  /\ [][(/\ op = "set_properties_now" /\ op' = "set_properties_now"
         /\ DOMAIN delta = { "z_order" } /\ delta' = delta)
          => (/\ wm'.type_data = wm.type_data
              /\ wm'.state_data = wm.state_data
              /\ wm'.set_data = wm.set_data)]_vars

C10_Witness ==
  /\ op = "set_properties_now"
  /\ delta = [z_order |-> "Z_top"]
  /\ Len(pending) = 2
  /\ get_flag(wm.properties, "fullscreen")
  /\ wm.set_data = << SetAction("_NET_WM_STATE_FULLSCREEN", "_NET_WM_STATE_ADD"),
                      SetAction("_NET_WM_STATE_BELOW", "_NET_WM_STATE_REMOVE"),
                      SetAction("_NET_WM_STATE_ABOVE", "_NET_WM_STATE_ADD") >>

-----------------------------------------------------------------------------
(* The specification of the raw mice: a window opened with raw mice         *)
(* requested, and the polls of process_events.                              *)

InitMice ==
  /\ \E d \in 1..Cardinality(MouseNodes) :
       StateIs([Opened([raw_mice |-> TRUE], FALSE) EXCEPT !.mice.moved = d])
  /\ op = "open_window"
  /\ ret = "true"
  /\ close_request_event = ""

NextMice ==
  \/ ProcessEventsBegin
  \/ ProcessEventsEnd

SpecMice == InitMice /\ [][NextMice]_vars

(* The specification of move_pointer on the raw mice: the same window, and  *)
(* move_pointer with every device index around the slots there are.         *)

Devices == -1..(Cardinality(MouseNodes) + 1)

NextMove ==
  \E device \in Devices \ { 0 }, x, y \in 1..MaxCoord : MovePointer(device, x, y)

SpecMove == InitMice /\ [][NextMove]_vars

(* The specification of the primary pointer: a window without raw mice, the *)
(* focus and crossing events that reach it, and move_pointer(0, x, y).      *)

PointerEvents ==
  { [type |-> t, window |-> 0] : t \in { "FocusIn", "FocusOut", "LeaveNotify" } }
    \cup { [type |-> t, window |-> 0, x |-> 1, y |-> 1] :
             t \in { "EnterNotify", "MotionNotify" } }

InitPointer ==
  /\ StateIs(Opened(NoProperties, FALSE))
  /\ op = "open_window"
  /\ ret = "true"
  /\ close_request_event = ""

NextPointer ==
  \/ ProcessEventsBegin
  \/ ProcessEventsLoop
  \/ ProcessEventsEnd
  \/ \E e \in PointerEvents : XEvent(e)
  \/ \E x, y \in 1..MaxCoord : MovePointer(0, x, y)

SpecPointer == InitPointer /\ [][NextPointer]_vars

-----------------------------------------------------------------------------
(* Claims about the raw mice, checked under SpecMice.                       *)

\* The whole records of an accumulator.
RECURSIVE WholeRecords(_, _)
WholeRecords(buffer, n) ==
  IF n = 0 THEN << >>
  ELSE Append(WholeRecords(buffer, n - 1), EventAt(buffer, n))

\* A record that reports a mouse button.
IsButtonRecord(e) ==
  e.type = "EV_KEY" /\ e.code >= BTN_MOUSE /\ e.code < BTN_MOUSE + 8

\* The button events of raw device slot, in order.
RECURSIVE ButtonsOf(_, _)
ButtonsOf(events, slot) ==
  IF events = << >> THEN << >>
  ELSE LET e == Head(events)
       IN (IF "device" \in DOMAIN e /\ e.device = slot THEN << e.button >> ELSE << >>)
            \o ButtonsOf(Tail(events), slot)

RECURSIVE ButtonRecords(_)
ButtonRecords(records) ==
  IF records = << >> THEN << >>
  ELSE (IF IsButtonRecord(Head(records)) THEN << Head(records).code - BTN_MOUSE >>
        ELSE << >>) \o ButtonRecords(Tail(records))

\* C11: when a poll finds N whole records followed by r < RecordSize bytes in
\* a device's accumulator, it consumes exactly the N records (the button
\* events raised are those of the N records, in order) and leaves exactly
\* the r trailing bytes, unchanged, at the front of the accumulator.
C11_WholeRecordsConsumed ==
  [][op' = "process_events" =>
       \A d \in DOMAIN mice'.info :
         LET buffer == mice'.polled[d]
             N == Len(buffer) \div RecordSize
             r == Len(buffer) % RecordSize
         IN /\ mice'.info[d].io_buffer = [i \in 1..r |-> buffer[N * RecordSize + i]]
            /\ ButtonsOf(out', mice'.info[d].input_device_index)
                 = ButtonRecords(WholeRecords(buffer, N))]_vars

C11_Witness ==
  /\ op = "process_events"
  /\ \E d \in DOMAIN mice.info :
       /\ Len(mice.polled[d]) = 2 * RecordSize + 1
       /\ Len(mice.info[d].io_buffer) = 1
       /\ ButtonsOf(out, mice.info[d].input_device_index) # << >>

-----------------------------------------------------------------------------
(* Claims about move_pointer, checked under SpecPointer and SpecMove.       *)

\* C12: move_pointer(0, x, y) returns false, warps nothing and leaves the
\* primary pointer and every raw slot as they were when the model's
\* foreground flag is not true or the primary pointer is outside the window;
\* otherwise it returns true and the primary pointer is in the window at
\* (x, y).
C12_PrimaryPointerMoved ==
  [][op' = "move_pointer" /\ delta'.device = 0 =>
       IF ~get_flag(properties, "foreground") \/ ~pointer.in_window
       THEN /\ ret' = "false"
            /\ pointer' = pointer
            /\ mice'.devices = mice.devices
            /\ ~Issued("XWarpPointer")'
       ELSE /\ ret' = "true"
            /\ pointer' = [in_window |-> TRUE, x |-> delta'.x, y |-> delta'.y]]_vars

C12_Witness ==
  /\ op = "move_pointer"
  /\ delta.device = 0
  /\ ret = "true"
  /\ get_flag(properties, "foreground")
  /\ pointer = [in_window |-> TRUE, x |-> MaxCoord, y |-> MaxCoord]
  /\ Issued("XWarpPointer")

\* C13: move_pointer(d, x, y) with d # 0 returns true exactly when
\* 1 <= d < _input_devices.size(); on an invalid index every slot's pointer
\* is unchanged, and on success slot d is in the window at (x, y) and every
\* other slot, the primary pointer included, is unchanged.
C13_RawPointerMoved ==
  [][op' = "move_pointer" /\ delta'.device # 0 =>
       LET d == delta'.device
           valid == 1 <= d /\ d < 1 + Len(mice.devices)
       IN /\ ret' = "true" <=> valid
          /\ pointer' = pointer
          /\ ~Issued("XWarpPointer")'
          /\ mice'.devices =
               IF valid
               THEN [mice.devices EXCEPT
                       ![d] = [in_window |-> TRUE, x |-> delta'.x, y |-> delta'.y]]
               ELSE mice.devices]_vars

C13_Witness ==
  /\ op = "move_pointer"
  /\ ret = "true"
  /\ delta.device = Len(mice.devices)
  /\ Len(mice.devices) = 2
  /\ mice.devices[2] = [in_window |-> TRUE, x |-> MaxCoord, y |-> 1]
  /\ ~mice.devices[1].in_window

-----------------------------------------------------------------------------
(* The specification of the window's lifecycle: opens that succeed or fail  *)
(* at each of their exits, closes at any time, frames, and the client       *)
(* messages of the window manager, with or without a close-request event    *)
(* registered by the application.                                           *)

LifeEvents ==
  { [type |-> "ClientMessage", window |-> 0, datum |-> d] :
      d \in { "WM_DELETE_WINDOW", "WM_TAKE_FOCUS" } }

InitLife ==
  /\ StateIs(Constructed)
  /\ op = "constructor"
  /\ ret = "none"
  /\ close_request_event \in { "", "close_request" }

NextLife ==
  \/ OpenWindow
  \/ CloseWindow
  \/ BeginFrame
  \/ ProcessEventsBegin
  \/ ProcessEventsLoop
  \/ ProcessEventsEnd
  \/ \E e \in LifeEvents : XEvent(e)

SpecLife == InitLife /\ [][NextLife]_vars

\* C14: from every combination of context bound or not, input context
\* present or not and window handle null or not, close_window ends with the
\* three released, having issued each release exactly where there was
\* something to release; a close that follows a close issues no unbind, no
\* XDestroyIC, no XDestroyWindow and no XFlush.
C14_CloseIdempotent ==
  [][op' = "close_window" =>
       /\ gsg' = 0 /\ ~ic' /\ xwindow' = 0
       /\ Issued("glXMakeCurrent")' <=> gsg # 0
       /\ Issued("XDestroyIC")' <=> ic
       /\ Issued("XDestroyWindow")' <=> xwindow # 0
       /\ Issued("XFlush")' <=> xwindow # 0
       /\ op = "close_window" => calls' = << >>]_vars

\* A close from a partial state: a context is bound but there is no window.
C14_Witness ==
  /\ op = "close_window"
  /\ Issued("glXMakeCurrent")
  /\ ~Issued("XDestroyWindow")
  /\ gsg = 0 /\ ~ic /\ xwindow = 0

\* C15: the window handle is null after construction, non-null after every
\* open_window that returned true, null after every close_window, after
\* every open_window that returned false and after the close a delete
\* message causes; and in every state the handle is non-null exactly when
\* the model is marked open.
C15_HandleLifecycle ==
  /\ op = "constructor" => xwindow = 0
  /\ op = "open_window" /\ ret = "true" => xwindow # 0
  /\ op = "open_window" /\ ret = "false" => xwindow = 0
  /\ op = "close_window" => xwindow = 0
  /\ (op = "loop_body" /\ ev.type = "ClientMessage"
        /\ ev.datum = "WM_DELETE_WINDOW" /\ close_request_event = "") => xwindow = 0
  /\ xwindow # 0 <=> IsOpen

\* An open that created the window and then failed its validation.
C15_Witness ==
  /\ op = "open_window"
  /\ ret = "false"
  /\ Issued("XCreateWindow")
  /\ Issued("XDestroyWindow")
  /\ xwindow = 0
  /\ ~IsOpen

\* C16: every open_window that returned false (no visual, a null handle from
\* XCreateWindow, an invalid context, a failed hardware/software validation)
\* leaves no render-context reference, no input context and no window.
C16_FailedOpenReleasesAll ==
  op = "open_window" /\ ret = "false" => gsg = 0 /\ ~ic /\ xwindow = 0

\* C17: when process_events takes a delete-window client message and a
\* close-request event is registered, exactly that event is thrown and the
\* window stays open, with its handle, context and input context unchanged;
\* when none is registered the window is closed and the model is marked not
\* open; a client message with another first datum changes nothing.
C17_DeleteWindow ==
  [][op' = "loop_body" /\ ev'.type = "ClientMessage" =>
       IF ev'.datum = "WM_DELETE_WINDOW"
       THEN IF close_request_event # ""
            THEN /\ calls' = << [fn |-> "throw_event", name |-> close_request_event] >>
                 /\ xwindow' = xwindow /\ gsg' = gsg /\ ic' = ic
                 /\ properties' = properties
                 /\ IsOpen'
            ELSE /\ xwindow' = 0 /\ gsg' = 0 /\ ~ic'
                 /\ Issued("XDestroyWindow")'
                 /\ ~Issued("throw_event")'
                 /\ ~IsOpen'
       ELSE /\ calls' = << >> /\ out' = << >>
            /\ xwindow' = xwindow /\ gsg' = gsg /\ ic' = ic
            /\ properties' = properties /\ pointer' = pointer
            /\ awaiting_configure' = awaiting_configure]_vars

C17_Witness ==
  /\ op = "loop_body"
  /\ ev.type = "ClientMessage"
  /\ ev.datum = "WM_DELETE_WINDOW"
  /\ close_request_event # ""
  /\ Issued("throw_event")
  /\ xwindow # 0 /\ gsg # 0 /\ ic
  /\ IsOpen

-----------------------------------------------------------------------------
(* The specification of the threads that use the display connection: the    *)
(* window thread in process_events and in the set_properties_now,           *)
(* open_window and close_window it reaches, the draw thread in begin_frame  *)
(* and begin_flip, and the application in move_pointer.                     *)

LockDeltas == { [origin |-> << 1, 1 >>], [title |-> "A"] }

LockEvents ==
  { [type |-> "FocusIn", window |-> 0],
    [type |-> "EnterNotify", window |-> 0, x |-> 1, y |-> 1] }

NextLock ==
  \/ OpenWindow
  \/ CloseWindow
  \/ \E d \in LockDeltas : SetPropertiesNow(d)
  \/ BeginFrame
  \/ BeginFlip
  \/ ProcessEventsBegin
  \/ ProcessEventsLoop
  \/ ProcessEventsEnd
  \/ WMIgnore
  \/ \E e \in LockEvents : XEvent(e)
  \/ MovePointer(0, 1, 1)

SpecLock == Init /\ [][NextLock]_vars

\* C18: every call into the display connection that move_pointer,
\* begin_frame, begin_flip, process_events and the set_properties_now,
\* open_window and close_window nested in it make is made while the calling
\* thread holds the connection's lock.
C18_DisplayCallsLocked == unlocked = << >>

-----------------------------------------------------------------------------
(* The specification of the geometry of an open window: origin, size and    *)
(* z-order requests, the window manager's answers and their processing.     *)

GeoDeltas ==
  { [origin |-> << 1, 1 >>],
    [size |-> << 1, 2 >>],
    [z_order |-> "Z_top"],
    [z_order |-> "Z_bottom", origin |-> << 1, 1 >>, size |-> << 1, 2 >>] }

InitGeo ==
  /\ StateIs(Opened([z_order |-> "Z_normal"], FALSE))
  /\ op = "open_window"
  /\ ret = "true"
  /\ close_request_event = ""

NextGeo ==
  \/ \E d \in GeoDeltas : SetPropertiesNow(d)
  \/ ProcessEventsBegin
  \/ ProcessEventsLoop
  \/ ProcessEventsEnd
  \/ WMConfigure
  \/ WMIgnore

SpecGeo == InitGeo /\ [][NextGeo]_vars

\* The attributes f of the properties p that are specified.
Only(p, f) == [g \in DOMAIN p \cap f |-> p[g]]

\* The step is a pass of the loop that took a ConfigureNotify.
ConfigureProcessed == op' = "loop_body" /\ ev'.type = "ConfigureNotify"

\* C19: after set_properties_now on an open window the model's origin, size
\* and z-order are what they were before the call, and each of them changes
\* only in a step that processes a ConfigureNotify.
C19_GeometryDeferred ==
  [][IsOpen =>
       LET geometry == { "origin", "size", "z_order" }
       IN Only(properties', geometry) # Only(properties, geometry)
            => ConfigureProcessed]_vars

\* C19, amended: after set_properties_now on an open window the model's
\* origin and size are what they were before the call, and each of them
\* changes only in a step that processes a ConfigureNotify; a z-order in the
\* delta is in the model when the call returns.
C19_OriginSizeDeferred ==
  [][IsOpen =>
       /\ Only(properties', { "origin", "size" }) # Only(properties, { "origin", "size" })
            => ConfigureProcessed
       /\ (op' = "set_properties_now" /\ has(delta', "z_order"))
            => has(properties', "z_order") /\ properties'.z_order = delta'.z_order]_vars

\* A delta with origin, size and z-order was applied: the z-order is stored,
\* origin and size are not.
C19_Witness ==
  /\ op = "set_properties_now"
  /\ IsOpen
  /\ delta = [z_order |-> "Z_bottom", origin |-> << 1, 1 >>, size |-> << 1, 2 >>]
  /\ properties.z_order = "Z_bottom"
  /\ properties.origin = << 0, 0 >>
  /\ properties.size # << 1, 2 >>
  /\ awaiting_configure

-----------------------------------------------------------------------------
(* Claims about the fullscreen derivation, checked under SpecWM.            *)

\* The XWindowChanges of the geometry requests the step sent.
GeometrySent == { calls[i].changes : i \in { j \in 1..Len(calls) :
                                               calls[j].fn = "XReconfigureWMWindow" } }

\* The changes place the window at (0, 0) with the size of the screen.
CoversScreen(changes) ==
  /\ { "x", "y", "width", "height" } \subseteq DOMAIN changes
  /\ changes.x = 0 /\ changes.y = 0
  /\ changes.width = DisplaySize[1] /\ changes.height = DisplaySize[2]

\* The changes touch neither origin nor size, or cover the screen.
KeepsScreen(changes) ==
  DOMAIN changes \cap { "x", "y", "width", "height" } # {} => CoversScreen(changes)

\* A delta that requests fullscreen is carried out
\* with undecorated true, origin (0, 0) and the size of the screen, whatever
\* origin, size or decoration the delta gave.
FullscreenRequestDerived ==
  [][(op' = "set_properties_now" /\ IsOpen /\ get_flag(delta', "fullscreen")) =>
       /\ get_flag(wm'.properties, "undecorated")
       /\ GeometrySent' # {}
       /\ \A changes \in GeometrySent' : CoversScreen(changes)]_vars

\* C20: a delta that requests fullscreen is carried out with undecorated
\* true, origin (0, 0) and the size of the screen, whatever the delta gave;
\* and while the model stays fullscreen, the geometry a later delta sends to
\* the server is still (0, 0) and the size of the screen.
C20_FullscreenDerived ==
  [][(op' = "set_properties_now" /\ IsOpen) =>
       /\ get_flag(delta', "fullscreen") =>
            /\ get_flag(wm'.properties, "undecorated")
            /\ GeometrySent' # {}
            /\ \A changes \in GeometrySent' : CoversScreen(changes)
       /\ (get_flag(properties, "fullscreen") /\ get_flag(properties', "fullscreen")) =>
            \A changes \in GeometrySent' : KeepsScreen(changes)]_vars

-----------------------------------------------------------------------------
(* Claims about how set_wm_properties delivers its hints, checked under     *)
(* SpecWM.                                                                  *)

IsSendEvent(c) == c.fn = "XSendEvent"

\* The client messages the step sent, in order.
Messages == SelectSeq(calls, IsSendEvent)

\* One message to the root window for each (atom, action) pair, in order.
OneMessagePerPair ==
  /\ Len(Messages) = Len(wm.set_data)
  /\ \A i \in 1..Len(Messages) :
       /\ Messages[i].to = "root"
       /\ Messages[i].state = wm.set_data[i][1]
       /\ Messages[i].action = wm.set_data[i][2]

\* C21: when set_wm_properties runs with already_mapped true, each (atom,
\* action) pair is sent as exactly one client message to the root window and
\* the type and state lists are not written as properties of the window;
\* with already_mapped false the two lists are written as properties of the
\* window and no client message is sent.
C21_HintDelivery ==
  Issued("XSetWMProperties") =>
    IF wm.already_mapped
    THEN OneMessagePerPair /\ ~Issued("XChangeProperty")
    ELSE /\ \E i \in 1..Len(calls) :
              /\ calls[i].fn = "XChangeProperty"
              /\ calls[i].property = "_NET_WM_WINDOW_TYPE"
              /\ calls[i].data = wm.type_data
         /\ \E i \in 1..Len(calls) :
              /\ calls[i].fn = "XChangeProperty"
              /\ calls[i].property = "_NET_WM_STATE"
              /\ calls[i].data = wm.state_data
         /\ Messages = << >>

-----------------------------------------------------------------------------
(* The specification of the draw thread beside the window thread: frames    *)
(* and flips, whose locked blocks wait for process_events, and the delete   *)
(* messages and reopenings the window thread handles meanwhile.             *)

InitDraw ==
  /\ StateIs(Opened(NoProperties, TRUE))
  /\ op = "open_window"
  /\ ret = "true"
  /\ close_request_event \in { "", "close_request" }

NextDraw ==
  \/ DrawFrameTests
  \/ DrawFrameLocked
  \/ DrawFlipTests
  \/ DrawFlipLocked
  \/ ProcessEventsBegin
  \/ ProcessEventsLoop
  \/ ProcessEventsEnd
  \/ OpenWindow
  \/ \E e \in LifeEvents : XEvent(e)

SpecDraw == InitDraw /\ [][NextDraw]_vars

\* C22: the draw thread never binds the context to, or swaps the buffers of,
\* a window handle that close_window has destroyed, and never uses the
\* context reference after close_window has dropped it.
C22_DrawUsesLiveWindow ==
  op \in { "begin_frame", "begin_flip" } =>
    \A i \in 1..Len(calls) :
      /\ calls[i].fn = "glXMakeCurrent" => calls[i].drawable # 0 /\ gsg # 0
      /\ calls[i].fn = "glXSwapBuffers" => calls[i].window # 0 /\ gsg # 0
      /\ calls[i].fn = "reset_if_new" => gsg # 0

-----------------------------------------------------------------------------
(* The specification of a close in the middle of the drain: a window with   *)
(* raw mice, the key, button and focus events queued for it, the delete     *)
(* message that closes it, and its reopening.                               *)

CloseEvents ==
  LifeEvents
    \cup { KeyEvent("KeyPress", 1, 0), KeyEvent("KeyRelease", 1, 0),
           [type |-> "ButtonPress", window |-> 0, button |-> 1, x |-> 1, y |-> 1],
           [type |-> "FocusIn", window |-> 0] }

InitClose ==
  /\ StateIs(Opened([raw_mice |-> TRUE], TRUE))
  /\ op = "open_window"
  /\ ret = "true"
  /\ close_request_event = ""

NextClose ==
  \/ ProcessEventsBegin
  \/ ProcessEventsLoop
  \/ ProcessEventsEnd
  \/ OpenWindow
  \/ \E e \in CloseEvents : XEvent(e)

SpecClose == InitClose /\ [][NextClose]_vars

\* C23: while the window is closed, no step of process_events takes an event
\* from the queue, emits anything to the input devices, updates the pointer
\* or the properties, or reads a raw device: what was queued for the window
\* when the delete message closed it stays untranslated, in the same pass
\* and in every later process_events, until the window is opened again.
C23_NothingAfterClose ==
  [][(xwindow = 0 /\ op' \in { "process_events", "loop_body", "final_flush" }) =>
       /\ op' # "loop_body"
       /\ queue' = queue
       /\ out' = << >>
       /\ calls' = << >>
       /\ pointer' = pointer
       /\ properties' = properties
       /\ mice'.info = mice.info /\ mice'.devices = mice.devices]_vars

\* A pass that the delete message ended with events still queued, on a
\* window with raw mice.
C23_Witness ==
  /\ op = "final_flush"
  /\ xwindow = 0
  /\ Len(queue) = MaxQueue - 1
  /\ Len(mice.info) > 0
  /\ \E i \in 1..Len(mice.info) : mice.info[i].fd >= 0

-----------------------------------------------------------------------------
(* Claims about the size hints, checked under SpecWM.                       *)

\* The size hints the step handed to XSetWMProperties.
SizeHintsSent ==
  { calls[i].size_hints : i \in { j \in 1..Len(calls) :
                                    calls[j].fn = "XSetWMProperties" } }

MinMax == { "min_width", "min_height", "max_width", "max_height" }

\* C24: the size hints carry minimum size = maximum size = requested size
\* exactly when the fixed-size flag is true and a size is present; with the
\* flag absent or false they carry no minimum and no maximum.
C24_FixedSizeHints ==
  \A hints \in SizeHintsSent :
    IF get_flag(wm.properties, "fixed_size") /\ has(wm.properties, "size")
    THEN /\ MinMax \subseteq DOMAIN hints
         /\ hints.min_width = wm.properties.size[1]
         /\ hints.max_width = wm.properties.size[1]
         /\ hints.min_height = wm.properties.size[2]
         /\ hints.max_height = wm.properties.size[2]
    ELSE MinMax \cap DOMAIN hints = {}

-----------------------------------------------------------------------------
(* Claims about the raw devices over several polls, checked under SpecMice. *)

\* The descriptors the step called fn on, in order.
RECURSIVE FdsOf(_, _)
FdsOf(cs, fn) ==
  IF cs = << >> THEN << >>
  ELSE (IF Head(cs).fn = fn THEN << Head(cs).fd >> ELSE << >>) \o FdsOf(Tail(cs), fn)

\* The descriptors of the first n devices that are still open, in order.
RECURSIVE OpenFds(_, _)
OpenFds(info, n) ==
  IF n = 0 THEN << >>
  ELSE OpenFds(info, n - 1) \o (IF info[n].fd >= 0 THEN << info[n].fd >> ELSE << >>)

\* C25: a poll reads exactly the devices whose descriptor is still open, so
\* a device closed after a hard error is never read again and stays closed;
\* a device whose read fails hard in this poll is closed in it; the bytes in
\* a device's accumulator are parsed whether or not the device is closed;
\* and the drain of the primary device's events goes on after the poll.
C25_HardErrorIsFinal ==
  [][op' = "process_events" =>
       /\ FdsOf(calls', "read") = OpenFds(mice.info, Len(mice.info))
       /\ wpc' = "drain"
       /\ \A d \in DOMAIN mice.info :
            /\ mice.info[d].fd < 0 => mice'.info[d].fd < 0
            /\ (mice.info[d].fd >= 0 /\ mice'.info[d].fd < 0)
                 <=> mice.info[d].fd \in Range(FdsOf(calls', "close"))
            /\ mice'.info[d].fd \in { mice.info[d].fd, -1 }
            /\ Len(mice'.info[d].io_buffer) < RecordSize
            /\ Len(mice'.polled[d]) >= RecordSize
                 => mice'.devices[mice.info[d].input_device_index].in_window]_vars

\* A poll that found one device closed by an earlier hard error and read and
\* parsed the other; the closed device's leftover bytes are still there.
C25_Witness ==
  /\ op = "process_events"
  /\ Len(FdsOf(calls, "read")) = 1
  /\ FdsOf(calls, "close") = << >>
  /\ \E d, e \in DOMAIN mice.info :
       /\ mice.info[d].fd < 0
       /\ mice.info[e].fd >= 0
       /\ FdsOf(calls, "read") = << mice.info[e].fd >>
       /\ Len(mice.polled[e]) >= RecordSize

-----------------------------------------------------------------------------
(* The specification of the raw records: the window of SpecMice, whose      *)
(* devices deliver whole records of every kind.                             *)

NextRecords ==
  \/ ProcessEventsBeginRecords
  \/ ProcessEventsEnd

SpecRecords == InitMice /\ [][NextRecords]_vars

\* The coordinate of an axis after the first k records, starting from c0.
RECURSIVE CoordAfter(_, _, _, _)
CoordAfter(records, k, axis, c0) ==
  IF k = 0 THEN c0
  ELSE LET e == records[k]
           c == CoordAfter(records, k - 1, axis, c0)
           rel == IF axis = "x" THEN REL_X ELSE REL_Y
           abs == IF axis = "x" THEN ABS_X ELSE ABS_Y
       IN CASE e.type = "EV_REL" /\ e.code = rel -> c + e.value
            [] e.type = "EV_ABS" /\ e.code = abs -> e.value
            [] OTHER -> c

\* The button events the first k records stand for.
RECURSIVE ButtonEvents(_, _, _, _, _)
ButtonEvents(records, k, slot, x0, y0) ==
  IF k = 0 THEN << >>
  ELSE LET e == records[k]
       IN ButtonEvents(records, k - 1, slot, x0, y0)
            \o (IF e.type = "EV_KEY" /\ e.code - BTN_MOUSE \in 0..7
                THEN << [kind |-> IF e.value = 0 THEN "button_up" ELSE "button_down",
                         button |-> e.code - BTN_MOUSE, device |-> slot,
                         x |-> CoordAfter(records, k - 1, "x", x0),
                         y |-> CoordAfter(records, k - 1, "y", y0)] >>
                ELSE << >>)

\* The events of out that belong to raw device slot.
RECURSIVE OutOf(_, _)
OutOf(events, slot) ==
  IF events = << >> THEN << >>
  ELSE (IF "device" \in DOMAIN Head(events) /\ Head(events).device = slot
        THEN << Head(events) >> ELSE << >>) \o OutOf(Tail(events), slot)

\* C26: over the whole records a poll parses for a device, each
\* relative-motion record adds its value to the running x or y coordinate,
\* each absolute-motion record replaces it, each key record whose code is one
\* of the 8 mouse-button codes raises button-down (value non-zero) or
\* button-up (value zero) for button code - BTN_MOUSE at the coordinate all
\* the records before it give, and every other record raises nothing.
C26_RecordSemantics ==
  [][op' = "process_events" =>
       \A d \in DOMAIN mice'.info :
         LET slot == mice.info[d].input_device_index
             N == Len(mice'.polled[d]) \div RecordSize
             records == WholeRecords(mice'.polled[d], N)
             x0 == mice.devices[slot].x
             y0 == mice.devices[slot].y
         IN /\ OutOf(out', slot) = ButtonEvents(records, N, slot, x0, y0)
            /\ mice'.devices[slot].x = CoordAfter(records, N, "x", x0)
            /\ mice'.devices[slot].y = CoordAfter(records, N, "y", y0)]_vars

\* A poll of two records: a relative motion along y from 1 to 2, then a key
\* record outside the button codes, which raises nothing.
C26_Witness ==
  /\ op = "process_events"
  /\ \E d \in DOMAIN mice.info :
       LET records == WholeRecords(mice.polled[d], 2)
       IN /\ Len(mice.polled[d]) = 2 * RecordSize
          /\ records[1].type = "EV_REL" /\ records[1].code = REL_Y
          /\ records[1].value = 1
          /\ records[2].type = "EV_KEY" /\ records[2].code = BTN_MOUSE + 8
          /\ mice.devices[mice.info[d].input_device_index].y = 2
          /\ out = << >>

-----------------------------------------------------------------------------
(* Claims about keys without a button, checked under SpecKeys.              *)

\* The step translates the press ev'.
PressTranslated == op' = "loop_body" /\ ev'.type = "KeyPress" /\ ~XFilterEvent(ev')

\* The step translates the held release staged'.
ReleaseTranslated ==
  /\ staged'.type = "KeyRelease"
  /\ \/ op' = "final_flush"
     \/ op' = "loop_body" /\ ~XFilterEvent(ev') /\ ~MatchingPress(ev', staged')

KeystrokesOf(events) == SelectSeq(events, LAMBDA o : o.kind = "keystroke")

\* C27, as claimed: a press whose keysym has no entry in get_button gives no
\* button-down, its release gives no button-up, and the press still gives a
\* keystroke, with an input context and without one.
C27_KeystrokeAlways ==
  [][/\ (PressTranslated /\ get_button(ev') = "none")
          => (Count(out', "button_down") = 0 /\ KeystrokesOf(out') # << >>)
     /\ (ReleaseTranslated /\ get_button(staged') = "none")
          => Count(out', "button_up") = 0]_vars

\* C27, amended: a press whose keysym has no entry in get_button gives no
\* button-down and its release gives no button-up; with an input context the
\* press still gives the keystrokes of the text the context composes for it,
\* and without one it gives no keystroke.
C27_KeystrokeThroughContext ==
  [][/\ (PressTranslated /\ get_button(ev') = "none")
          => /\ Count(out', "button_down") = 0
             /\ KeystrokesOf(out') = IF ic THEN Keystrokes(XwcLookupString(ev'))
                                     ELSE << >>
     /\ (ReleaseTranslated /\ get_button(staged') = "none")
          => Count(out', "button_up") = 0]_vars

\* A press of the key without a button, translated without an input context
\* while its own earlier release was held: nothing is emitted.
C27_Witness ==
  /\ op = "loop_body"
  /\ ev.type = "KeyPress" /\ ~XFilterEvent(ev)
  /\ get_button(ev) = "none"
  /\ ~ic
  /\ staged.type = "KeyRelease" /\ get_button(staged) = "none"
  /\ ~MatchingPress(ev, staged)
  /\ out = << >>

-----------------------------------------------------------------------------
(* The specification of opening: a constructed window for which the engine  *)
(* has requested any of raw mice, a hidden cursor and a title, opened and   *)
(* closed by the engine.                                                    *)

RequestedProperties ==
  { add_properties(add_properties(a, b), c) :
      a \in Optional("raw_mice", BOOLEAN),
      b \in Optional("cursor_hidden", BOOLEAN),
      c \in Optional("title", { "A" }) }

InitOpen ==
  /\ \E p \in RequestedProperties :
       StateIs([Constructed EXCEPT !.properties = add_properties(@, p)])
  /\ op = "constructor"
  /\ ret = "none"
  /\ close_request_event = ""

NextOpen ==
  \/ OpenWindow
  \/ CloseWindow

SpecOpen == InitOpen /\ [][NextOpen]_vars

\* The places of the calls of fn in a log of calls.
Positions(cs, fn) == { i \in 1..Len(cs) : cs[i].fn = fn }

\* C28: in every run of open_window the window is mapped only after it was
\* created, the window-manager hints were applied in not-yet-mapped mode, the
\* context was bound to it and the validation passed; a run that fails never
\* maps the window and never starts the discovery of the raw devices.
C28_OpenOrdering ==
  [][op' = "open_window" =>
       LET map == Positions(calls', "XMapWindow")
           Before(S) == S # {} /\ \A i \in S, j \in map : i < j
       IN /\ ret' = "true" <=> map # {}
          /\ map # {} =>
               /\ map = { Len(calls') }
               /\ Before({ i \in Positions(calls', "XCreateWindow") :
                             calls'[i].window = xwindow' /\ xwindow' # 0 })
               /\ Before(Positions(calls', "XSetWMProperties"))
               /\ Before(Positions(calls', "XSetWMProtocols"))
               /\ ~wm'.already_mapped
               /\ Positions(calls', "XSendEvent") = {}
               /\ Before({ i \in Positions(calls', "glXMakeCurrent") :
                             calls'[i].drawable = xwindow' /\ calls'[i].context # 0 })
          /\ ret' = "false" => mice' = mice
          /\ Len(mice'.info) > Len(mice.info) => get_flag(properties, "raw_mice")]_vars

\* An open that succeeds with a hidden cursor and both raw devices found.
C28_Witness ==
  /\ op = "open_window"
  /\ ret = "true"
  /\ Len(mice.info) = Cardinality(MouseNodes)
  /\ Positions(calls, "XDefineCursor") # {}
  /\ calls[Len(calls)].fn = "XMapWindow"
  /\ calls[1].fn = "XCreateWindow"

-----------------------------------------------------------------------------
(* The specification of ConfigureNotify: a window opened resizable or with  *)
(* a fixed size, the requests that change its size or its fixed-size flag,  *)
(* and the configurations the server reports, asked for or not.             *)

ConfigureDeltas ==
  { [size |-> << 1, 2 >>], [fixed_size |-> TRUE], [fixed_size |-> FALSE] }

ConfigureEvents == { ConfigureNotify(0, size, FALSE) : size \in Sizes }

InitConfigure ==
  /\ \E p \in { NoProperties, [fixed_size |-> TRUE, size |-> << 1, 1 >>] } :
       StateIs(Opened(p, FALSE))
  /\ op = "open_window"
  /\ ret = "true"
  /\ close_request_event = ""

NextConfigure ==
  \/ \E d \in ConfigureDeltas : SetPropertiesNow(d)
  \/ ProcessEventsBegin
  \/ ProcessEventsLoop
  \/ ProcessEventsEnd
  \/ WMConfigure
  \/ WMIgnore
  \/ \E e \in ConfigureEvents : XEvent(e)

SpecConfigure == InitConfigure /\ [][NextConfigure]_vars

\* The engine was told of the size the event reports.
NotifiedOf(cs, e) ==
  \E i \in 1..Len(cs) :
    /\ cs[i].fn = "system_changed_properties"
    /\ cs[i].changed = [size |-> << e.width, e.height >>]

\* C29, as claimed: when a ConfigureNotify is processed and no corrective
\* resize is issued for it, the model's size is the reported size afterwards
\* and the engine is notified; in every case _awaiting_configure is false
\* afterwards.
C29_ConfigureAdopted ==
  [][(op' = "loop_body" /\ IsConfigure(ev'))
       => /\ ~awaiting_configure'
          /\ Positions(calls', "XConfigureWindow") = {}
               => /\ properties'.size = << ev'.width, ev'.height >>
                  /\ NotifiedOf(calls', ev')]_vars

\* C29, amended: when a ConfigureNotify is processed and no corrective resize
\* is issued for it, the model's size is the reported size afterwards, and
\* the engine is notified of it exactly when the model is not fixed-size; in
\* every case _awaiting_configure is false afterwards.
C29_ConfigureAdoptedUnlessFixed ==
  [][(op' = "loop_body" /\ IsConfigure(ev'))
       => /\ ~awaiting_configure'
          /\ Positions(calls', "XConfigureWindow") = {}
               => /\ properties'.size = << ev'.width, ev'.height >>
                  /\ NotifiedOf(calls', ev') <=> ~get_flag(properties, "fixed_size")
          /\ Positions(calls', "XConfigureWindow") # {}
               => /\ get_flag(properties, "fixed_size")
                  /\ properties' = properties]_vars

\* A resizable window is told a size that is not its model's while a
\* configuration was awaited: the model takes it and the engine is told.
C29_Witness ==
  /\ op = "loop_body"
  /\ IsConfigure(ev)
  /\ ~get_flag(properties, "fixed_size")
  /\ properties.size = << 2, 1 >>
  /\ ev.width = 2 /\ ev.height = 1
  /\ NotifiedOf(calls, ev)
  /\ ~awaiting_configure
  /\ pending # << >>

-----------------------------------------------------------------------------
(* A claim about the crossing events, checked under SpecPointer.            *)

\* C30: after a LeaveNotify is processed the primary pointer stays marked
\* outside the window until an EnterNotify is processed: no other event that
\* is drained marks it inside again, and move_pointer(0, x, y) keeps failing.
C30_OutsideUntilEnter ==
  [][(/\ op = "loop_body" /\ ev.type = "LeaveNotify"
      /\ ~(op' = "loop_body" /\ ev'.type = "EnterNotify"))
       => (/\ ~pointer'.in_window
           /\ op' = "move_pointer" => ret' = "false")]_vars

-----------------------------------------------------------------------------
(* The specification of the key-repeat test on timestamps: the window of    *)
(* SpecKeys, and presses and releases of the keys that have a button,       *)
(* stamped with every value the Time counter takes.                         *)

RepeatEvents ==
  { KeyEvent(type, k, t) : type \in { "KeyPress", "KeyRelease" },
                           k \in { 1, 2 }, t \in 0..(TimeModulus - 1) }

NextRepeat ==
  \/ ProcessEventsBegin
  \/ ProcessEventsLoop
  \/ ProcessEventsEnd
  \/ \E e \in RepeatEvents : Len(queue) < MaxKeys /\ XEvent(e)

SpecRepeat == InitKeys /\ [][NextRepeat]_vars

\* C31: a press that follows a held release of the same key code is
\* coalesced exactly when its timestamp is that of the release or one unit
\* later, the counter wrapping from TimeModulus - 1 to 0: a press stamped
\* before the release is genuine (the release gives its button-up first),
\* and a press one unit later across the wraparound is coalesced.
C31_RepeatWithinOneUnit ==
  [][(/\ op' = "loop_body" /\ staged'.type = "KeyRelease"
      /\ ev'.type = "KeyPress" /\ ev'.keycode = staged'.keycode)
       => LET d == ev'.time - staged'.time
              within == d \in { 0, 1, 1 - TimeModulus }
          IN /\ within => Count(out', "button_up") = 0
             /\ ~within => /\ out'[1] = [kind |-> "button_up",
                                          what |-> get_button(staged')]
                           /\ Count(out', "button_up") = 1
             /\ Count(out', "button_down") = 1]_vars

\* A release stamped with the last value of the counter, then a press of the
\* same key stamped 0: one button-down and no button-up.
C31_Witness ==
  /\ op = "loop_body"
  /\ staged.type = "KeyRelease" /\ staged.time = TimeModulus - 1
  /\ ev.type = "KeyPress" /\ ev.keycode = staged.keycode /\ ev.time = 0
  /\ Count(out, "button_down") = 1
  /\ Count(out, "button_up") = 0

-----------------------------------------------------------------------------
(* Claims about begin_frame after open and close, checked under SpecLife.   *)

\* C32: whenever begin_frame passes its tests and reaches the step that binds
\* the context, the window handle is not null: it never binds the context to
\* a null window, also not after an open that failed.
C32_BindsLiveWindow ==
  [][op' = "begin_frame" =>
       /\ (gsg # 0 /\ ~awaiting_configure) => xwindow # 0
       /\ \A i \in Positions(calls', "glXMakeCurrent") : calls'[i].drawable # 0]_vars

\* C33: right after every open_window that succeeds, _awaiting_configure is
\* false: a flag left set when the window was closed does not survive into
\* the next open.
C33_OpenClearsAwaiting ==
  [][(op' = "open_window" /\ ret' = "true") => ~awaiting_configure']_vars

-----------------------------------------------------------------------------
(* The specification of drawing during a reconfiguration: an open window,   *)
(* set_properties_now and process_events on the window thread, the window   *)
(* manager, and begin_frame on the draw thread, whose tests and locked      *)
(* block are two steps.                                                     *)

NextReconfigure ==
  \/ \E d \in GeoDeltas : SetPropertiesNow(d)
  \/ DrawFrameTests
  \/ DrawFrameLocked
  \/ ProcessEventsBegin
  \/ ProcessEventsLoop
  \/ ProcessEventsEnd
  \/ WMConfigure
  \/ WMIgnore

SpecReconfigure == InitGeo /\ [][NextReconfigure]_vars

\* C34: with set_properties_now interleaved with begin_frame, a begin_frame
\* that binds the context and returns true never does so while
\* _awaiting_configure is set: no frame starts between the flag test and the
\* bind step on a window that is being reconfigured.
C34_NoFrameWhileAwaiting ==
  [][(op' = "begin_frame" /\ ret' = "true") => ~awaiting_configure]_vars

-----------------------------------------------------------------------------
(* The specification of the resumption of rendering: a window that stays    *)
(* open, resizable or fixed at its size, whose origin the engine changes;   *)
(* process_events is called again and again, and the window manager answers *)
(* every request with a ConfigureNotify.                                    *)

ProcessEvents == ProcessEventsBegin \/ ProcessEventsLoop \/ ProcessEventsEnd

\* Every request outstanding and every ConfigureNotify queued may give one
\* more request, so the engine's requests are bounded through their sum.
NextResume ==
  \/ /\ Len(pending) + Len(queue) < MaxPending
     /\ SetPropertiesNow([origin |-> << 1, 1 >>])
  \/ BeginFrame
  \/ ProcessEventsBegin
  \/ ProcessEventsLoop
  \/ ProcessEventsEnd
  \/ WMConfigure

SpecResume ==
  /\ InitConfigure
  /\ [][NextResume]_vars
  /\ WF_vars(ProcessEvents)
  /\ WF_vars(WMConfigure)

\* C35: on a window that stays open with its context, with process_events
\* called again and again and every request answered by a ConfigureNotify,
\* _awaiting_configure once set becomes false again, and a begin_frame called
\* while it is false does not skip; on a fixed-size window the ConfigureNotify
\* that reports the model's size is answered by no further resize request.
C35_RenderingResumes ==
  /\ (awaiting_configure ~> ~awaiting_configure)
  /\ [][(op' = "begin_frame" /\ ~awaiting_configure)
          => Positions(calls', "gsg_begin_frame") # {}]_vars
  /\ [][(/\ op' = "loop_body" /\ IsConfigure(ev')
          /\ get_flag(properties, "fixed_size")
          /\ << ev'.width, ev'.height >> = properties.size)
          => (calls' = << >> /\ pending' = pending)]_vars

\* On a fixed-size window, the answer to the corrective resize reports the
\* model's size: nothing is awaited and no request is outstanding.
C35_Witness ==
  /\ op = "loop_body"
  /\ IsConfigure(ev) /\ ~ev.ack
  /\ get_flag(properties, "fixed_size")
  /\ << ev.width, ev.height >> = properties.size
  /\ has(properties, "origin") /\ properties.origin = << 0, 0 >>
  /\ ~awaiting_configure
  /\ pending = << >>
  /\ calls = << >>

-----------------------------------------------------------------------------
(* A claim about the raw devices over opens and closes, checked under       *)
(* SpecOpen.                                                                *)

\* C36: slot 0 is the keyboard and primary pointer, every raw device record
\* refers to a slot >= 1 that exists and no two refer to the same slot; after
\* close_window no raw device descriptor is open; and no device node has two
\* records, however often the window is opened with raw mice requested.
C36_RawDevicesBounded ==
  /\ input_devices_size(Cur) >= 1
  /\ \A d \in DOMAIN mice.info :
       /\ mice.info[d].input_device_index \in 1..(input_devices_size(Cur) - 1)
       /\ \A e \in DOMAIN mice.info :
            d # e => /\ mice.info[d].input_device_index # mice.info[e].input_device_index
                     /\ mice.info[d].node # mice.info[e].node
  /\ op = "close_window" => \A d \in DOMAIN mice.info : mice.info[d].fd < 0

====
